---- MODULE Spec2Model ----
(***************************************************************************)
(* inFlow inventory client: the cache tier (PluginCache as used by         *)
(* InFlowMCPClient), the mutation invalidators, the read-modify-write CLI  *)
(* flows and the serial-index builders.                                    *)
(***************************************************************************)
EXTENDS Integers, Sequences, FiniteSets, TLC

VARIABLES
    entries,        \* PluginCache storage: key -> [value, expiresAt]
    hits,           \* PluginCache hit counter
    misses,         \* PluginCache miss counter
    enabled,        \* PluginCache process-wide enable/disable switch
    cacheDisabled,  \* InFlowMCPClient.cacheDisabled, per client instance
    now,            \* wall clock, seconds
    remoteVer,      \* version of the data held by the remote service
    flow,           \* position of the CLI command being run
    last,           \* what the last completed call did and returned
    switchedOff,    \* history: disableCache was called and enableCache not since
    indexPc,        \* position of the serial-index build being run
    remoteOrders,   \* the sales orders held by the remote service
    maxOrders,      \* buildSerialIndex: options.limit (0: not given)
    skip,           \* buildSerialIndex: offset of the next page
    allOrders,      \* buildSerialIndex: orders collected so far
    serialIndex,    \* buildSerialIndex: the index returned
    serials,        \* buildSerialIndexFromProducts: result.serials
    productIndex,   \* buildSerialIndexFromProducts: the index returned
    processEnv,     \* process.env: the credentials exported in the shell
    configEnv,      \* config.mcpServer.env: the credentials set in config.json
    connected,      \* InFlowMCPClient.connected, per client instance
    client,         \* InFlowMCPClient.client is not null, per client instance
    wire,           \* what the last call did with the connection
    tasks,          \* the asynchronous calls that may overlap, each at its await
    established     \* transport connections established since the last disconnect,
                    \* per client instance

cacheVars == <<entries, hits, misses, enabled, cacheDisabled, now, remoteVer, flow, last,
               switchedOff>>
indexVars == <<indexPc, remoteOrders, maxOrders, skip, allOrders, serialIndex,
               serials, productIndex>>
gatewayVars == <<processEnv, configEnv, connected, client, wire>>
overlapVars == <<tasks, established>>
vars == <<cacheVars, indexVars, gatewayVars, overlapVars>>

----------------------------------------------------------------------------
\* Bounds of the model

MaxCalls == 2       \* counted cache lookups (hits + misses) explored
MaxTicks == 3       \* clock ticks explored
TickSeconds == 300  \* seconds per clock tick
MaxVersion == 1     \* remote data versions explored

Clients == {"c1", "c2"}
CliClient == "c1"
\* the clients that call the API in the explored runs; the other client of the
\* process only toggles the cache switch they share
Callers == {CliClient}

\* JS undefined, for optional parameters that were not given
Undefined == "undefined"

----------------------------------------------------------------------------
\* @local/plugin-cache

TTL_FIVE_MINUTES == 300
TTL_FIFTEEN_MINUTES == 900
TTL_HOUR == 3600

\* RegExp /^prefix/ tested against a key
StartsWith(key, prefix) ==
    /\ Len(key) >= Len(prefix)
    /\ SubSeq(key, 1, Len(prefix)) = prefix

RECURSIVE JoinParams(_)
\* params: sequence of <<name, value>> in canonical (sorted by name) order;
\* undefined values are left out
JoinParams(params) ==
    IF params = <<>> THEN ""
    ELSE LET p == Head(params)
             rest == JoinParams(Tail(params))
         IN IF p[2] = Undefined THEN rest
            ELSE p[1] \o "=" \o p[2] \o (IF rest = "" THEN "" ELSE "&" \o rest)

createCacheKey(op, params) == op \o ":" \o JoinParams(params)

\* entries left after cache.invalidatePattern(/^prefix/)
invalidatePattern(store, prefix) ==
    [k \in {x \in DOMAIN store : ~StartsWith(x, prefix)} |-> store[k]]

RECURSIVE invalidatePatterns(_, _)
\* consecutive invalidatePattern calls, in order
invalidatePatterns(store, prefixes) ==
    IF prefixes = <<>> THEN store
    ELSE invalidatePatterns(invalidatePattern(store, Head(prefixes)), Tail(prefixes))

\* an entry is visible to readers only while now < expiresAt
Fresh(store, key, t) == key \in DOMAIN store /\ t < store[key].expiresAt

Put(store, key, value, expiresAt) ==
    [k \in DOMAIN store \cup {key} |->
        IF k = key THEN [value |-> value, expiresAt |-> expiresAt] ELSE store[k]]

Drop(store, key) == [k \in DOMAIN store \ {key} |-> store[k]]

----------------------------------------------------------------------------
\* Remote Operation Gateway

\* what one callTool can come to: a normal result, or a throw (a result flagged
\* isError, a failure to connect or of the transport) named by its message
ToolOutcomes == {"ok", "fails"}

\* the values a call comes to: the payload of a remote result, a thrown Error
\* with its message, or nothing (a void return)
Payload(data) == [data |-> data]

Thrown(message) == [error |-> message]

NoValue == [none |-> TRUE]

\* callTool, by what it comes to: outcome is "ok" and it returns the payload
\* (the remote data version), or outcome is the message of the Error it throws
callTool(outcome) ==
    IF outcome = "ok" THEN [ok |-> TRUE, value |-> Payload(remoteVer)]
    ELSE [ok |-> FALSE, value |-> Thrown(outcome)]

Ids == {"1", "2"}
Limits == {Undefined, "10"}

----------------------------------------------------------------------------
\* Cache Store: getOrFetch

\* what the call just completed did: how it was served, whether it returned
\* normally, the value returned, the remote calls made and the
\* invalidatePattern calls executed
Returned(how, ok, value, remoteCalls, patterns) ==
    last' = [how |-> how, ok |-> ok, value |-> value,
             remoteCalls |-> remoteCalls, patterns |-> patterns,
             removed |-> Cardinality(DOMAIN entries \ DOMAIN entries')]

\* the value cache.getOrFetch hands back when it returns: the fresh entry, else
\* what the producer returned
handedBack(key, bypassCache, result) ==
    IF enabled /\ ~bypassCache /\ Fresh(entries, key, now)
    THEN entries[key].value
    ELSE result.value

\* variant: what the producer threw is stored like a value
getOrFetchWith_StoresError(key, ttl, bypassCache, result, answer) ==
    /\ UNCHANGED <<enabled, cacheDisabled, now, remoteVer, switchedOff>>
    /\ IF enabled /\ ~bypassCache
       THEN /\ hits + misses < MaxCalls
            /\ IF Fresh(entries, key, now)
               THEN /\ hits' = hits + 1
                    /\ UNCHANGED <<entries, misses>>
                    /\ Returned("hit", TRUE, answer, 0, <<>>)
               ELSE /\ misses' = misses + 1
                    /\ hits' = hits
                    /\ entries' = Put(entries, key, result.value, now + ttl)
                    /\ Returned("miss", result.ok,
                           IF result.ok THEN answer ELSE result.value, 1, <<>>)
       ELSE /\ UNCHANGED <<entries, hits, misses>>
            /\ Returned("bypass", result.ok,
                   IF result.ok THEN answer ELSE result.value, 1, <<>>)

\* cache.getOrFetch(key, producer, {ttl, bypassCache}) where `result` is what
\* the producer comes to when it is run, and `answer` is what the caller
\* returns once getOrFetch has handed back its value
getOrFetchWith(key, ttl, bypassCache, result, answer) ==
    /\ UNCHANGED <<enabled, cacheDisabled, now, remoteVer, switchedOff>>
    /\ IF enabled /\ ~bypassCache
       THEN /\ hits + misses < MaxCalls
            /\ IF Fresh(entries, key, now)
               THEN /\ hits' = hits + 1
                    /\ UNCHANGED <<entries, misses>>
                    /\ Returned("hit", TRUE, answer, 0, <<>>)
               ELSE /\ misses' = misses + 1
                    /\ hits' = hits
                    /\ entries' = IF result.ok
                                  THEN Put(entries, key, result.value, now + ttl)
                                  ELSE Drop(entries, key)
                    /\ Returned("miss", result.ok,
                           IF result.ok THEN answer ELSE result.value,
                           1, <<>>)
       ELSE /\ UNCHANGED <<entries, hits, misses>>
            /\ Returned("bypass", result.ok,
                   IF result.ok THEN answer ELSE result.value,
                   1, <<>>)

\* cache.getOrFetch(key, producer, {ttl, bypassCache}) where the producer is a
\* remote call ending as `outcome`
getOrFetch(key, ttl, bypassCache, outcome) ==
    getOrFetchWith(key, ttl, bypassCache, callTool(outcome),
        handedBack(key, bypassCache, callTool(outcome)))

----------------------------------------------------------------------------
\* Cached accessors of InFlowMCPClient

listProducts(c, limit, outcome) ==
    getOrFetch(createCacheKey("products", << <<"categoryId", Undefined>>,
            <<"categoryName", Undefined>>, <<"filter", Undefined>>,
            <<"limit", limit>>, <<"skip", Undefined>> >>),
        TTL_FIFTEEN_MINUTES, cacheDisabled[c], outcome)

\* variant: the call follows the switch of the shared store, not the client's flag
getProduct_SharedSwitch(c, productId, outcome) ==
    getOrFetch(createCacheKey("product", << <<"id", productId>>, <<"include", Undefined>> >>),
        TTL_FIFTEEN_MINUTES, ~enabled, outcome)

\* variant: every call asks getOrFetch to bypass the store
getProduct_AlwaysBypass(c, productId, outcome) ==
    getOrFetch(createCacheKey("product", << <<"id", productId>>, <<"include", Undefined>> >>),
        TTL_FIFTEEN_MINUTES, TRUE, outcome)

getProduct(c, productId, outcome) ==
    getOrFetch(createCacheKey("product", << <<"id", productId>>, <<"include", Undefined>> >>),
        TTL_FIFTEEN_MINUTES, cacheDisabled[c], outcome)

searchProducts(c, query, outcome) ==
    getOrFetch(createCacheKey("products_search", << <<"query", query>> >>),
        TTL_FIFTEEN_MINUTES, cacheDisabled[c], outcome)

getBillOfMaterials(c, productId, outcome) ==
    getOrFetch(createCacheKey("bom", << <<"productId", productId>> >>),
        TTL_HOUR, cacheDisabled[c], outcome)

listCategories(c, outcome) ==
    getOrFetch("categories", TTL_HOUR, cacheDisabled[c], outcome)

getProductWithBom(c, productId, outcome) ==
    getOrFetch(createCacheKey("product_bom", << <<"productId", productId>> >>),
        TTL_FIFTEEN_MINUTES, cacheDisabled[c], outcome)

ProductIdRequired ==
    "productId is required for get_inventory_summary. Use list-products first to get product IDs."

\* variant: no check of productId
getStockLevels_Unchecked(c, productId, outcome) ==
    getOrFetch(createCacheKey("stock", << <<"productId", productId>> >>),
        TTL_FIVE_MINUTES, cacheDisabled[c], outcome)

\* productId absent: throws before the key is computed
getStockLevels(c, productId, outcome) ==
    IF productId = Undefined \/ productId = ""
    THEN /\ UNCHANGED <<entries, hits, misses, enabled, cacheDisabled, now, remoteVer, switchedOff>>
         /\ Returned("invalid", FALSE, Thrown(ProductIdRequired), 0, <<>>)
    ELSE getOrFetch(createCacheKey("stock", << <<"productId", productId>> >>),
            TTL_FIVE_MINUTES, cacheDisabled[c], outcome)

listStockAdjustments(c, limit, outcome) ==
    getOrFetch(createCacheKey("stock_adjustments", << <<"limit", limit>> >>),
        TTL_FIVE_MINUTES, cacheDisabled[c], outcome)

getStockAdjustment(c, id, outcome) ==
    getOrFetch(createCacheKey("stock_adjustment", << <<"id", id>> >>),
        TTL_FIVE_MINUTES, cacheDisabled[c], outcome)

listStockTransfers(c, outcome) ==
    getOrFetch(createCacheKey("stock_transfers", << <<"fromLocationId", Undefined>>,
            <<"limit", Undefined>>, <<"status", Undefined>>,
            <<"toLocationId", Undefined>> >>),
        TTL_FIVE_MINUTES, cacheDisabled[c], outcome)

getStockTransfer(c, id, outcome) ==
    getOrFetch(createCacheKey("stock_transfer", << <<"id", id>> >>),
        TTL_FIVE_MINUTES, cacheDisabled[c], outcome)

listStockCounts(c, outcome) ==
    getOrFetch(createCacheKey("stock_counts", << <<"limit", Undefined>>,
            <<"locationId", Undefined>>, <<"status", Undefined>> >>),
        TTL_FIVE_MINUTES, cacheDisabled[c], outcome)

getStockCount(c, id, outcome) ==
    getOrFetch(createCacheKey("stock_count", << <<"id", id>> >>),
        TTL_FIVE_MINUTES, cacheDisabled[c], outcome)

listAdjustmentReasons(c, outcome) ==
    getOrFetch("adjustment_reasons", TTL_HOUR,
        cacheDisabled[c], outcome)

listSalesOrders(c, outcome) ==
    getOrFetch(createCacheKey("sales_orders", << <<"include", Undefined>>,
            <<"limit", Undefined>>, <<"skip", Undefined>>, <<"status", Undefined>> >>),
        TTL_FIVE_MINUTES, cacheDisabled[c], outcome)

getSalesOrder(c, id, outcome) ==
    getOrFetch(createCacheKey("sales_order", << <<"id", id>>, <<"include", Undefined>> >>),
        TTL_FIVE_MINUTES, cacheDisabled[c], outcome)

searchSalesOrders(c, query, outcome) ==
    getOrFetch(createCacheKey("sales_orders_search", << <<"query", query>> >>),
        TTL_FIVE_MINUTES, cacheDisabled[c], outcome)

listPurchaseOrders(c, outcome) ==
    getOrFetch(createCacheKey("purchase_orders", << <<"include", Undefined>>,
            <<"limit", Undefined>>, <<"skip", Undefined>>, <<"status", Undefined>> >>),
        TTL_FIVE_MINUTES, cacheDisabled[c], outcome)

getPurchaseOrder(c, id, include, outcome) ==
    getOrFetch(createCacheKey("purchase_order", << <<"id", id>>, <<"include", include>> >>),
        TTL_FIVE_MINUTES, cacheDisabled[c], outcome)

listLocations(c, outcome) ==
    getOrFetch("locations", TTL_HOUR, cacheDisabled[c], outcome)

getLocation(c, id, outcome) ==
    getOrFetch(createCacheKey("location", << <<"id", id>> >>),
        TTL_HOUR, cacheDisabled[c], outcome)

getProductSerials(c, productId, outcome) ==
    getOrFetch(createCacheKey("product_serials", << <<"productId", productId>> >>),
        TTL_FIFTEEN_MINUTES, cacheDisabled[c], outcome)

listAllSerials(c, outcome) ==
    getOrFetch(createCacheKey("all_serials", << <<"inStockOnly", Undefined>>,
            <<"maxProducts", Undefined>> >>),
        TTL_FIFTEEN_MINUTES, cacheDisabled[c], outcome)

listCustomers(c, outcome) ==
    getOrFetch(createCacheKey("customers", << <<"limit", Undefined>> >>),
        TTL_FIFTEEN_MINUTES, cacheDisabled[c], outcome)

listVendors(c, limit, outcome) ==
    getOrFetch(createCacheKey("vendors", << <<"limit", limit>> >>),
        TTL_FIFTEEN_MINUTES, cacheDisabled[c], outcome)

----------------------------------------------------------------------------
\* Write accessors: remote write first, invalidation after it has succeeded

\* a write accessor that awaited callTool (ending as `outcome`) and then made
\* the invalidatePattern calls `purge`, in order
Written(outcome, purge) ==
    LET result == callTool(outcome) IN
    /\ entries' = invalidatePatterns(entries, purge)
    /\ Returned("write", result.ok, result.value, 1, purge)
    /\ UNCHANGED <<hits, misses, enabled, cacheDisabled, now, remoteVer, switchedOff>>

\* variant: the single-product keys are not purged
upsertProduct_KeepsSingleProduct(c, outcome) ==
    Written(outcome,
        IF callTool(outcome).ok
        THEN <<"products", "products_search", "product_bom", "bom">>
        ELSE <<>>)

upsertProduct(c, outcome) ==
    Written(outcome,
        IF callTool(outcome).ok
        THEN <<"products", "product:", "products_search", "product_bom", "bom">>
        ELSE <<>>)

\* variant: the purge is issued whether or not the remote write succeeded
createStockAdjustment_PurgeAlways(c, outcome) ==
    Written(outcome, <<"stock">>)

createStockAdjustment(c, outcome) ==
    Written(outcome,
        IF callTool(outcome).ok THEN <<"stock">> ELSE <<>>)

\* variant: the product views are purged as well
createStockTransfer_PurgesProducts(c, outcome) ==
    Written(outcome,
        IF callTool(outcome).ok THEN <<"stock", "product">> ELSE <<>>)

createStockTransfer(c, outcome) ==
    Written(outcome,
        IF callTool(outcome).ok THEN <<"stock">> ELSE <<>>)

createStockCount(c, outcome) ==
    Written(outcome,
        IF callTool(outcome).ok THEN <<"stock">> ELSE <<>>)

upsertVendor(c, outcome) ==
    Written(outcome,
        IF callTool(outcome).ok THEN <<"vendors">> ELSE <<>>)

upsertPurchaseOrder(c, outcome) ==
    Written(outcome,
        IF callTool(outcome).ok THEN <<"purchase_orders", "purchase_order:">> ELSE <<>>)

\* variant: the stock views are not purged
receivePurchaseOrder_KeepsStock(c, outcome) ==
    Written(outcome,
        IF callTool(outcome).ok
        THEN <<"purchase_orders", "purchase_order:">>
        ELSE <<>>)

receivePurchaseOrder(c, outcome) ==
    Written(outcome,
        IF callTool(outcome).ok
        THEN <<"purchase_orders", "purchase_order:", "stock">>
        ELSE <<>>)

\* variant: dryRun is not looked at
unreceivePurchaseOrder_AlwaysPurges(c, dryRun, outcome) ==
    Written(outcome,
        IF callTool(outcome).ok
        THEN <<"purchase_orders", "purchase_order:", "stock">>
        ELSE <<>>)

unreceivePurchaseOrder(c, dryRun, outcome) ==
    Written(outcome,
        IF callTool(outcome).ok /\ ~dryRun
        THEN <<"purchase_orders", "purchase_order:", "stock">>
        ELSE <<>>)

\* getVendor: never cached
getVendor(c, outcome) ==
    /\ UNCHANGED <<entries, hits, misses, enabled, cacheDisabled, now, remoteVer, switchedOff>>
    /\ Returned("uncached", callTool(outcome).ok, callTool(outcome).value, 1, <<>>)

----------------------------------------------------------------------------
\* Cache control

\* variant: the shared store is not switched off
disableCache_ClientFlagOnly(c) ==
    /\ cacheDisabled' = [cacheDisabled EXCEPT ![c] = TRUE]
    /\ enabled' = enabled
    /\ switchedOff' = TRUE
    /\ UNCHANGED <<entries, hits, misses, now, remoteVer>>
    /\ Returned("control", TRUE, NoValue, 0, <<>>)

disableCache(c) ==
    /\ cacheDisabled' = [cacheDisabled EXCEPT ![c] = TRUE]
    /\ enabled' = FALSE
    /\ switchedOff' = TRUE
    /\ UNCHANGED <<entries, hits, misses, now, remoteVer>>
    /\ Returned("control", TRUE, NoValue, 0, <<>>)

enableCache(c) ==
    /\ cacheDisabled' = [cacheDisabled EXCEPT ![c] = FALSE]
    /\ enabled' = TRUE
    /\ switchedOff' = FALSE
    /\ UNCHANGED <<entries, hits, misses, now, remoteVer>>
    /\ Returned("control", TRUE, NoValue, 0, <<>>)

clearCache(c) ==
    /\ entries' = <<>>
    /\ Returned("control", TRUE, Payload(Cardinality(DOMAIN entries)), 0, <<>>)
    /\ UNCHANGED <<hits, misses, enabled, cacheDisabled, now, remoteVer, switchedOff>>

invalidateCacheKey(c, key) ==
    /\ entries' = Drop(entries, key)
    /\ Returned("control", TRUE, [deleted |-> key \in DOMAIN entries], 0, <<>>)
    /\ UNCHANGED <<hits, misses, enabled, cacheDisabled, now, remoteVer, switchedOff>>

----------------------------------------------------------------------------
\* Environment

Tick ==
    /\ now < MaxTicks * TickSeconds
    /\ now' = now + TickSeconds
    /\ UNCHANGED <<entries, hits, misses, enabled, cacheDisabled, remoteVer, flow, last, switchedOff>>
    /\ UNCHANGED <<indexVars, gatewayVars, overlapVars>>

\* the remote data changes without this process writing it
RemoteChange ==
    /\ remoteVer < MaxVersion
    /\ remoteVer' = remoteVer + 1
    /\ UNCHANGED <<entries, hits, misses, enabled, cacheDisabled, now, flow, last, switchedOff>>
    /\ UNCHANGED <<indexVars, gatewayVars, overlapVars>>

----------------------------------------------------------------------------
\* Serial numbers: String.prototype.trim and toUpperCase over the characters
\* the explored serials are written with

Whitespace == {" "}

RECURSIVE trimStart(_)
trimStart(str) ==
    IF Len(str) > 0 /\ SubSeq(str, 1, 1) \in Whitespace
    THEN trimStart(SubSeq(str, 2, Len(str)))
    ELSE str

RECURSIVE trimEnd(_)
trimEnd(str) ==
    IF Len(str) > 0 /\ SubSeq(str, Len(str), Len(str)) \in Whitespace
    THEN trimEnd(SubSeq(str, 1, Len(str) - 1))
    ELSE str

trim(str) == trimEnd(trimStart(str))

upperChar(ch) ==
    CASE ch = "a" -> "A"
      [] ch = "b" -> "B"
      [] ch = "c" -> "C"
      [] ch = "d" -> "D"
      [] OTHER -> ch

RECURSIVE toUpperCase(_)
toUpperCase(str) ==
    IF Len(str) = 0 THEN ""
    ELSE upperChar(SubSeq(str, 1, 1)) \o toUpperCase(SubSeq(str, 2, Len(str)))

\* serial.trim().toUpperCase()
normalize(serial) == toUpperCase(trim(serial))

----------------------------------------------------------------------------
\* The remote service's sales orders

pageSize == 100

\* the places of the list where an order has lines; every other order has none
HotPositions == {1, 2, 101}

\* a line: its productId and line.quantity.serialNumbers, when that is an array
Line(productId, serialNumbers) ==
    [productId |-> productId, hasSerials |-> TRUE, serialNumbers |-> serialNumbers]
LineWithoutSerials(productId) ==
    [productId |-> productId, hasSerials |-> FALSE, serialNumbers |-> <<>>]

OrderShapes == {"none", "packed", "ordered", "picked"}

\* the explored contents of an order
Shape(name) ==
    CASE name = "packed" ->
            [orderDate |-> "2024-03-01", custom4 |-> "https://shop/1",
             packLines |-> << Line("P1", <<"ab">>) >>,
             pickLines |-> << Line("P2", <<"ab", "cd">>) >>,
             lines |-> << LineWithoutSerials("P3") >>]
      [] name = "ordered" ->
            [orderDate |-> "2024-02-01", custom4 |-> "",
             packLines |-> <<>>,
             pickLines |-> <<>>,
             lines |-> << Line("P4", <<" AB ", "", " ">>) >>]
      [] name = "picked" ->
            [orderDate |-> "2024-04-01", custom4 |-> "",
             packLines |-> <<>>,
             pickLines |-> << Line("P5", <<"Cd">>), Line("P6", <<"aB", "cd">>) >>,
             lines |-> <<>>]
      [] OTHER ->
            [orderDate |-> "2024-01-01", custom4 |-> "",
             packLines |-> <<>>, pickLines |-> <<>>, lines |-> <<>>]

\* the order at place i of the remote list
OrderAt(remote, i) ==
    LET shape == Shape(IF i \in HotPositions THEN remote.hot[i] ELSE "none") IN
    [salesOrderId |-> i, orderNumber |-> "SO-" \o ToString(i),
     orderDate |-> shape.orderDate, custom4 |-> shape.custom4,
     packLines |-> shape.packLines, pickLines |-> shape.pickLines,
     lines |-> shape.lines]

OrderCounts == {0, 2, 100, 101, 170, 200}
OrderLimits == {0, 1, 100, 150}
RemoteOrderLists ==
    [count : OrderCounts, hot : [HotPositions -> OrderShapes]]

\* list_sales_orders {count, skip}: the orders skip+1 .. skip+count that exist
list_sales_orders(remote, count, from) ==
    LET n == IF remote.count - from < 0 THEN 0
             ELSE IF remote.count - from < count THEN remote.count - from
             ELSE count
    IN [i \in 1..n |-> OrderAt(remote, from + i)]

\* the forms of the tool result: an object holding the list as data, the list
\* itself, or an object that holds no data
ResultForms == {"data", "array", "object"}
NoOrder ==
    [salesOrderId |-> 0, orderNumber |-> "undefined", orderDate |-> "undefined",
     custom4 |-> "", packLines |-> <<>>, pickLines |-> <<>>, lines |-> <<>>]
ToolResult(form, list) ==
    [isArray |-> form = "array", hasData |-> form = "data", items |-> list]

\* const orders = result.data || result || [];
\* const orderList = Array.isArray(orders) ? orders : [orders];
orderListOf(result) ==
    IF result.hasData \/ result.isArray THEN result.items ELSE <<NoOrder>>

----------------------------------------------------------------------------
\* buildSerialIndex

\* variant: a later occurrence replaces the entry
addSerial_Overwrites(serial, line, order, index) ==
    IF serial = "" THEN index
    ELSE LET normalizedSerial == normalize(serial) IN
         [k \in DOMAIN index \cup {normalizedSerial} |->
             IF k = normalizedSerial
             THEN [serial |-> normalizedSerial,
                   salesOrderId |-> order.salesOrderId,
                   orderNumber |-> order.orderNumber,
                   orderDate |-> order.orderDate,
                   productId |-> line.productId,
                   shopifyOrderUrl |-> IF order.custom4 = "" THEN "null"
                                       ELSE order.custom4]
             ELSE index[k]]

\* the body of the loop over serialNumbers
addSerial(serial, line, order, index) ==
    IF serial = "" THEN index
    ELSE LET normalizedSerial == normalize(serial) IN
         IF normalizedSerial \in DOMAIN index THEN index
         ELSE [k \in DOMAIN index \cup {normalizedSerial} |->
                  IF k = normalizedSerial
                  THEN [serial |-> normalizedSerial,
                        salesOrderId |-> order.salesOrderId,
                        orderNumber |-> order.orderNumber,
                        orderDate |-> order.orderDate,
                        productId |-> line.productId,
                        shopifyOrderUrl |-> IF order.custom4 = "" THEN "null"
                                            ELSE order.custom4]
                  ELSE index[k]]

RECURSIVE addSerials(_, _, _, _)
addSerials(serialNumbers, line, order, index) ==
    IF serialNumbers = <<>> THEN index
    ELSE addSerials(Tail(serialNumbers), line, order,
             addSerial(Head(serialNumbers), line, order, index))

RECURSIVE extractFromLines(_, _, _)
extractFromLines(lines, order, index) ==
    IF lines = <<>> THEN index
    ELSE LET line == Head(lines) IN
         extractFromLines(Tail(lines), order,
             IF ~line.hasSerials THEN index
             ELSE addSerials(line.serialNumbers, line, order, index))

\* variant: the sources are gone through from the raw order lines up
indexOrder_LinesFirst(order, index) ==
    extractFromLines(order.packLines, order,
        extractFromLines(order.pickLines, order,
            extractFromLines(order.lines, order, index)))

\* one turn of the loop over allOrders: packLines, pickLines, lines
indexOrder(order, index) ==
    extractFromLines(order.lines, order,
        extractFromLines(order.pickLines, order,
            extractFromLines(order.packLines, order, index)))

RECURSIVE indexRange(_, _, _, _)
\* the turns for orders[lo..hi], in order; the range is halved and the left
\* half evaluated before the right one is entered, to keep the evaluation shallow
indexRange(orders, lo, hi, index) ==
    IF lo > hi THEN index
    ELSE IF lo = hi THEN indexOrder(orders[lo], index)
    ELSE LET mid == (lo + hi) \div 2
             left == indexRange(orders, lo, mid, index)
         IN IF DOMAIN left = {}
            THEN indexRange(orders, mid + 1, hi, <<>>)
            ELSE indexRange(orders, mid + 1, hi, left)

\* for (const order of allOrders)
indexOrders(orders, index) == indexRange(orders, 1, Len(orders), index)

\* buildSerialIndex({limit}) up to its first await
buildSerialIndex(limit, remote) ==
    /\ indexPc = "idle"
    /\ indexPc' = "paging"
    /\ remoteOrders' = remote
    /\ maxOrders' = limit
    /\ skip' = 0
    /\ allOrders' = <<>>
    /\ serialIndex' = <<>>
    /\ UNCHANGED <<serials, productIndex>>
    /\ UNCHANGED <<cacheVars, gatewayVars, overlapVars>>

\* variant: options.limit is not looked at
buildSerialIndex_page_NoCap(outcome, form) ==
    /\ indexPc = "paging"
    /\ UNCHANGED <<remoteOrders, maxOrders, serials, productIndex>>
    /\ UNCHANGED <<cacheVars, gatewayVars, overlapVars>>
    /\ IF outcome = "fails"
       THEN /\ indexPc' = "failed"
            /\ UNCHANGED <<skip, allOrders, serialIndex>>
       ELSE LET result == ToolResult(form, list_sales_orders(remoteOrders, pageSize, skip))
                orderList == orderListOf(result)
                collected == allOrders \o orderList
            IN IF Len(orderList) < pageSize
               THEN /\ indexPc' = "done"
                    /\ allOrders' = collected
                    /\ serialIndex' = indexOrders(collected, <<>>)
                    /\ skip' = skip
               ELSE IF FALSE /\ Len(collected) >= maxOrders
               THEN /\ indexPc' = "done"
                    /\ allOrders' = SubSeq(collected, 1, maxOrders)
                    /\ serialIndex' = indexOrders(SubSeq(collected, 1, maxOrders), <<>>)
                    /\ skip' = skip
               ELSE /\ indexPc' = "paging"
                    /\ allOrders' = collected
                    /\ skip' = skip + pageSize
                    /\ serialIndex' = serialIndex

\* variant: the loop ends on an empty page
buildSerialIndex_page_UntilEmpty(outcome, form) ==
    /\ indexPc = "paging"
    /\ UNCHANGED <<remoteOrders, maxOrders, serials, productIndex>>
    /\ UNCHANGED <<cacheVars, gatewayVars, overlapVars>>
    /\ IF outcome = "fails"
       THEN /\ indexPc' = "failed"
            /\ UNCHANGED <<skip, allOrders, serialIndex>>
       ELSE LET result == ToolResult(form, list_sales_orders(remoteOrders, pageSize, skip))
                orderList == orderListOf(result)
                collected == allOrders \o orderList
            IN IF Len(orderList) = 0
               THEN /\ indexPc' = "done"
                    /\ allOrders' = collected
                    /\ serialIndex' = indexOrders(collected, <<>>)
                    /\ skip' = skip
               ELSE IF maxOrders # 0 /\ Len(collected) >= maxOrders
               THEN /\ indexPc' = "done"
                    /\ allOrders' = SubSeq(collected, 1, maxOrders)
                    /\ serialIndex' = indexOrders(SubSeq(collected, 1, maxOrders), <<>>)
                    /\ skip' = skip
               ELSE /\ indexPc' = "paging"
                    /\ allOrders' = collected
                    /\ skip' = skip + pageSize
                    /\ serialIndex' = serialIndex

\* one turn of the paging loop, from the return of callTool; the loop ended,
\* the index is built and returned
buildSerialIndex_page(outcome, form) ==
    /\ indexPc = "paging"
    /\ UNCHANGED <<remoteOrders, maxOrders, serials, productIndex>>
    /\ UNCHANGED <<cacheVars, gatewayVars, overlapVars>>
    /\ IF outcome = "fails"
       THEN /\ indexPc' = "failed"
            /\ UNCHANGED <<skip, allOrders, serialIndex>>
       ELSE LET result == ToolResult(form, list_sales_orders(remoteOrders, pageSize, skip))
                orderList == orderListOf(result)
                collected == allOrders \o orderList
            IN IF Len(orderList) < pageSize
               THEN /\ indexPc' = "done"
                    /\ allOrders' = collected
                    /\ serialIndex' = indexOrders(collected, <<>>)
                    /\ skip' = skip
               ELSE IF maxOrders # 0 /\ Len(collected) >= maxOrders
               THEN /\ indexPc' = "done"
                    /\ allOrders' = SubSeq(collected, 1, maxOrders)
                    /\ serialIndex' = indexOrders(SubSeq(collected, 1, maxOrders), <<>>)
                    /\ skip' = skip
               ELSE /\ indexPc' = "paging"
                    /\ allOrders' = collected
                    /\ skip' = skip + pageSize
                    /\ serialIndex' = serialIndex

----------------------------------------------------------------------------
\* buildSerialIndexFromProducts

SerialRecords ==
    [serial : {"ab", " AB", "cd"}, productId : {"P1", "P2"}, inStock : {TRUE}]
SerialLists ==
    {<<>>} \cup {<<r>> : r \in SerialRecords}
           \cup {<<r1, r2>> : r1 \in SerialRecords, r2 \in SerialRecords}

RECURSIVE indexSerials(_, _)
\* for (const serial of result.serials || [])
indexSerials(list, index) ==
    IF list = <<>> THEN index
    ELSE LET serial == Head(list)
             normalizedSerial == normalize(serial.serial)
         IN indexSerials(Tail(list),
                [k \in DOMAIN index \cup {normalizedSerial} |->
                    IF k = normalizedSerial
                    THEN [serial |-> normalizedSerial,
                          productId |-> serial.productId,
                          inStock |-> serial.inStock]
                    ELSE index[k]])

buildSerialIndexFromProducts(outcome, list) ==
    /\ indexPc = "idle"
    /\ UNCHANGED <<remoteOrders, maxOrders, skip, allOrders, serialIndex>>
    /\ UNCHANGED <<cacheVars, gatewayVars, overlapVars>>
    /\ IF outcome = "fails"
       THEN /\ indexPc' = "products_failed"
            /\ UNCHANGED <<serials, productIndex>>
       ELSE /\ indexPc' = "products_done"
            /\ serials' = list
            /\ productIndex' = indexSerials(list, <<>>)

----------------------------------------------------------------------------
\* getSalesOrderSerials

\* the position in serialMap of the record kept under `serial`, 0 when none
mapGet(serialMap, serial) ==
    LET at == {i \in 1..Len(serialMap) : serialMap[i].serial = serial}
    IN IF at = {} THEN 0 ELSE CHOOSE i \in at : TRUE

\* the body of the loop over serialNumbers: the Map is keyed by the serial as
\* it is written
mapSerial(serial, line, source, serialMap) ==
    IF serial = "" THEN serialMap
    ELSE LET existing == mapGet(serialMap, serial) IN
         IF existing # 0
         THEN [serialMap EXCEPT ![existing].sources = Append(@, source)]
         ELSE Append(serialMap,
                  [serial |-> serial, productId |-> line.productId, sources |-> <<source>>])

RECURSIVE mapSerials(_, _, _, _)
mapSerials(serialNumbers, line, source, serialMap) ==
    IF serialNumbers = <<>> THEN serialMap
    ELSE mapSerials(Tail(serialNumbers), line, source,
             mapSerial(Head(serialNumbers), line, source, serialMap))

RECURSIVE extractSerials(_, _, _)
extractSerials(lines, source, serialMap) ==
    IF lines = <<>> THEN serialMap
    ELSE LET line == Head(lines) IN
         extractSerials(Tail(lines), source,
             IF ~line.hasSerials THEN serialMap
             ELSE mapSerials(line.serialNumbers, line, source, serialMap))

\* Array.from(serialMap.values()) after packLines, pickLines, lines
serialsOfOrder(order) ==
    extractSerials(order.lines, "order",
        extractSerials(order.pickLines, "pick",
            extractSerials(order.packLines, "pack", <<>>)))

orderSerials(order) ==
    [salesOrderId |-> order.salesOrderId,
     orderNumber |-> order.orderNumber,
     orderDate |-> order.orderDate,
     serialCount |-> Len(serialsOfOrder(order)),
     serials |-> serialsOfOrder(order)]

\* the order get_sales_order returns, by the shape of its contents
OrderOf(shape) == OrderAt([count |-> 1, hot |-> [p \in HotPositions |-> shape]], 1)

getSalesOrderSerials(c, orderId, order, outcome) ==
    getOrFetchWith(createCacheKey("sales_order",
            << <<"id", orderId>>, <<"include", "lines,pickLines,packLines">> >>),
        TTL_FIVE_MINUTES, cacheDisabled[c],
        IF outcome = "ok" THEN [ok |-> TRUE, value |-> order]
        ELSE [ok |-> FALSE, value |-> Thrown(outcome)],
        orderSerials(handedBack(createCacheKey("sales_order",
                << <<"id", orderId>>, <<"include", "lines,pickLines,packLines">> >>),
            cacheDisabled[c], [ok |-> TRUE, value |-> order])))

\* the get-order-serials command of a process that does nothing else
getOrderSerialsCmd(orderId, order, outcome) ==
    /\ indexPc = "idle"
    /\ getSalesOrderSerials(CliClient, orderId, order, outcome)
    /\ indexPc' = IF last'.ok THEN "order_done" ELSE "order_failed"
    /\ UNCHANGED <<remoteOrders, maxOrders, skip, allOrders, serialIndex, serials,
                   productIndex>>
    /\ UNCHANGED <<flow, gatewayVars, overlapVars>>

----------------------------------------------------------------------------
\* Serial search over the cached indexes

RECURSIVE collectOrders(_, _, _, _, _)
\* the paging loop of buildSerialIndex run to its end, every page received
collectOrders(remote, limit, from, collected, form) ==
    LET orderList == orderListOf(ToolResult(form, list_sales_orders(remote, pageSize, from)))
        all == collected \o orderList
    IN IF Len(orderList) < pageSize THEN all
       ELSE IF limit # 0 /\ Len(all) >= limit THEN SubSeq(all, 1, limit)
       ELSE collectOrders(remote, limit, from + pageSize, all, form)

\* () => this.buildSerialIndex(), as a getOrFetch producer
orderIndexProducer(remote, form, outcome) ==
    IF outcome = "ok"
    THEN [ok |-> TRUE, value |-> indexOrders(collectOrders(remote, 0, 0, <<>>, form), <<>>)]
    ELSE [ok |-> FALSE, value |-> Thrown(outcome)]

\* () => this.buildSerialIndexFromProducts(), as a getOrFetch producer
productIndexProducer(list, outcome) ==
    IF outcome = "ok"
    THEN [ok |-> TRUE, value |-> indexSerials(list, <<>>)]
    ELSE [ok |-> FALSE, value |-> Thrown(outcome)]

NotFoundInOrders ==
    "Serial number not found in fulfilled sales orders. Check Airtable for authoritative serial number data."
NotFoundInProducts ==
    "Serial number not found in product inventory. May not exist or may be in a non-serialized product."

\* variant: the index is looked up under the query as it was typed
lookupSerial_RawKey(serialIndex_, serial, message) ==
    LET normalizedSerial == normalize(serial) IN
    IF serial \in DOMAIN serialIndex_
    THEN [f \in {"found"} \cup DOMAIN serialIndex_[serial] |->
             IF f \in DOMAIN serialIndex_[serial]
             THEN serialIndex_[serial][f]
             ELSE TRUE]
    ELSE [found |-> FALSE, serial |-> normalizedSerial, message |-> message]

\* variant: the not-found value carries the query as it was typed
lookupSerial_EchoesQuery(serialIndex_, serial, message) ==
    LET normalizedSerial == normalize(serial) IN
    IF normalizedSerial \in DOMAIN serialIndex_
    THEN [f \in {"found"} \cup DOMAIN serialIndex_[normalizedSerial] |->
             IF f \in DOMAIN serialIndex_[normalizedSerial]
             THEN serialIndex_[normalizedSerial][f]
             ELSE TRUE]
    ELSE [found |-> FALSE, serial |-> serial, message |-> message]

\* the lookup after the index is there: {found: true, ...result} or the
\* not-found value
lookupSerial(serialIndex_, serial, message) ==
    LET normalizedSerial == normalize(serial) IN
    IF normalizedSerial \in DOMAIN serialIndex_
    THEN [f \in {"found"} \cup DOMAIN serialIndex_[normalizedSerial] |->
             IF f \in DOMAIN serialIndex_[normalizedSerial]
             THEN serialIndex_[normalizedSerial][f]
             ELSE TRUE]
    ELSE [found |-> FALSE, serial |-> normalizedSerial, message |-> message]

searchSerial(c, serial, remote, form, outcome) ==
    getOrFetchWith("serial_index", TTL_HOUR, cacheDisabled[c],
        orderIndexProducer(remote, form, outcome),
        lookupSerial(handedBack("serial_index", cacheDisabled[c], orderIndexProducer(remote, form, outcome)),
            serial, NotFoundInOrders))

\* count and totalInIndex of the answer of listSerials({limit, productId});
\* limit 0 and productId "" stand for options not given
listSerials(c, limit, productId, remote, form, outcome) ==
    getOrFetchWith("serial_index", TTL_HOUR, cacheDisabled[c],
        orderIndexProducer(remote, form, outcome),
        LET index == handedBack("serial_index", cacheDisabled[c],
                         orderIndexProducer(remote, form, outcome))
            kept == {k \in DOMAIN index :
                        productId = "" \/ index[k].productId = productId}
        IN [count |-> IF limit # 0 /\ limit < Cardinality(kept)
                      THEN limit ELSE Cardinality(kept),
            totalInIndex |-> Cardinality(DOMAIN index)])

\* variant: the product-based index is kept under the key of the order-based one
searchSerialByProduct_SharedKey(c, serial, list, outcome) ==
    getOrFetchWith("serial_index", TTL_FIFTEEN_MINUTES, cacheDisabled[c],
        productIndexProducer(list, outcome),
        lookupSerial(handedBack("serial_index", cacheDisabled[c], productIndexProducer(list, outcome)),
            serial, NotFoundInProducts))

searchSerialByProduct(c, serial, list, outcome) ==
    getOrFetchWith("serial_index_products", TTL_FIFTEEN_MINUTES, cacheDisabled[c],
        productIndexProducer(list, outcome),
        lookupSerial(handedBack("serial_index_products", cacheDisabled[c], productIndexProducer(list, outcome)),
            serial, NotFoundInProducts))

\* the remote data explored by the searches
NoOrders == [count |-> 0, hot |-> [p \in HotPositions |-> "none"]]
SearchRemotes ==
    {NoOrders,
     [count |-> 2, hot |-> (1 :> "packed" @@ 2 :> "ordered" @@ 101 :> "none")],
     [count |-> 2, hot |-> (1 :> "none" @@ 2 :> "picked" @@ 101 :> "none")]}
SearchSerialLists ==
    {<<>>,
     <<[serial |-> " AB", productId |-> "P1", inStock |-> TRUE]>>,
     <<[serial |-> "cd", productId |-> "P2", inStock |-> TRUE]>>}
Queries == {" ab ", "AB", "cd", "bd"}

----------------------------------------------------------------------------
\* CLI commands

IdleFlow == [cmd |-> "none", pc |-> "idle"]
Running == flow.pc \in {"disabled", "read", "enabled"}

\* a command that is one client call
Call(A) ==
    /\ ~Running
    /\ A
    /\ flow' = IdleFlow
    /\ UNCHANGED <<indexVars, gatewayVars, overlapVars>>

\* the read-modify-write commands: disableCache(); await read; enableCache();
\* return upsert
FlowBegin(cmd) ==
    /\ ~Running
    /\ disableCache(CliClient)
    /\ flow' = [cmd |-> cmd, pc |-> "disabled"]
    /\ UNCHANGED <<indexVars, gatewayVars, overlapVars>>

\* the awaited read; when it throws the command ends there
FlowRead(cmd, A) ==
    /\ flow = [cmd |-> cmd, pc |-> "disabled"]
    /\ A
    /\ flow' = [cmd |-> cmd, pc |-> IF last'.ok THEN "read" ELSE "failed"]
    /\ UNCHANGED <<indexVars, gatewayVars, overlapVars>>

FlowEnable(cmd) ==
    /\ flow = [cmd |-> cmd, pc |-> "read"]
    /\ enableCache(CliClient)
    /\ flow' = [cmd |-> cmd, pc |-> "enabled"]
    /\ UNCHANGED <<indexVars, gatewayVars, overlapVars>>

FlowWrite(cmd, A) ==
    /\ flow = [cmd |-> cmd, pc |-> "enabled"]
    /\ A
    /\ flow' = [cmd |-> cmd, pc |-> IF last'.ok THEN "done" ELSE "failed"]
    /\ UNCHANGED <<indexVars, gatewayVars, overlapVars>>

UpdateProductCmd ==
    \/ FlowBegin("update-product")
    \/ \E id \in Ids, o \in ToolOutcomes :
          FlowRead("update-product", getProduct(CliClient, id, o))
    \/ FlowEnable("update-product")
    \/ \E o \in ToolOutcomes : FlowWrite("update-product", upsertProduct(CliClient, o))

AddPoItemCmd ==
    \/ FlowBegin("add-po-item")
    \/ \E id \in Ids, o \in ToolOutcomes :
          FlowRead("add-po-item", getPurchaseOrder(CliClient, id, "lines", o))
    \/ FlowEnable("add-po-item")
    \/ \E o \in ToolOutcomes : FlowWrite("add-po-item", upsertPurchaseOrder(CliClient, o))

UpdatePurchaseOrderCmd ==
    \/ FlowBegin("update-purchase-order")
    \/ \E id \in Ids, o \in ToolOutcomes :
          FlowRead("update-purchase-order", getPurchaseOrder(CliClient, id, "lines", o))
    \/ FlowEnable("update-purchase-order")
    \/ \E o \in ToolOutcomes :
          FlowWrite("update-purchase-order", upsertPurchaseOrder(CliClient, o))

----------------------------------------------------------------------------
----------------------------------------------------------------------------
\* Remote Operation Gateway: connect, disconnect, listTools, callTool

Credentials == {"INFLOW_API_KEY", "INFLOW_COMPANY_ID"}

\* {...process.env, ...this.config.mcpServer.env}: a name set in config.json
\* overrides the one exported in the shell, whatever its value
mergedEnv(process, config) ==
    [k \in Credentials |-> IF config[k] # Undefined THEN config[k] ELSE process[k]]

\* !env.NAME
Missing(env, k) == env[k] = Undefined \/ env[k] = ""

ApiKeyNotSet ==
    "INFLOW_API_KEY environment variable is not set. Please export it in your shell or add it to ~/.bashrc"

CompanyIdNotSet ==
    "INFLOW_COMPANY_ID environment variable is not set. Please export it in your shell or add it to ~/.bashrc"

\* the rejection of client.connect(transport), of client.listTools() or of
\* client.callTool(): an Error of the transport, passed on as it is
TransportError == "transport error"

ToolCallFailed == "Tool call failed"

\* a call that did not touch the connection
Unwired == [checked |-> FALSE, created |-> 0, invoked |-> 0]

\* variant: connect() without its first line
connecting_AlwaysNew(c, link) ==
    LET env == mergedEnv(processEnv, configEnv) IN
    IF Missing(env, "INFLOW_API_KEY")
    THEN [ok |-> FALSE, error |-> ApiKeyNotSet, checked |-> TRUE, created |-> 0,
          connected |-> connected[c], client |-> client[c]]
    ELSE IF Missing(env, "INFLOW_COMPANY_ID")
    THEN [ok |-> FALSE, error |-> CompanyIdNotSet, checked |-> TRUE, created |-> 0,
          connected |-> connected[c], client |-> client[c]]
    ELSE [ok |-> link = "up", error |-> IF link = "up" THEN "" ELSE TransportError,
          checked |-> TRUE, created |-> 1,
          connected |-> connected[c] \/ link = "up", client |-> TRUE]

\* variant: the credentials are looked at after the transport and the client
\* are created
connecting_CreatesFirst(c, link) ==
    LET env == mergedEnv(processEnv, configEnv) IN
    IF connected[c]
    THEN [ok |-> TRUE, error |-> "", checked |-> FALSE, created |-> 0,
          connected |-> TRUE, client |-> client[c]]
    ELSE IF Missing(env, "INFLOW_API_KEY")
    THEN [ok |-> FALSE, error |-> ApiKeyNotSet, checked |-> TRUE, created |-> 1,
          connected |-> FALSE, client |-> TRUE]
    ELSE IF Missing(env, "INFLOW_COMPANY_ID")
    THEN [ok |-> FALSE, error |-> CompanyIdNotSet, checked |-> TRUE, created |-> 1,
          connected |-> FALSE, client |-> TRUE]
    ELSE [ok |-> link = "up", error |-> IF link = "up" THEN "" ELSE TransportError,
          checked |-> TRUE, created |-> 1, connected |-> link = "up", client |-> TRUE]

\* connect() of client c, where client.connect(transport) resolves (link is
\* "up") or rejects: whether it returns, the message of the Error it throws,
\* whether it looked at the credentials, how many transport and client pairs it
\* created, and this.connected and this.client afterwards
connecting(c, link) ==
    LET env == mergedEnv(processEnv, configEnv) IN
    IF connected[c]
    THEN [ok |-> TRUE, error |-> "", checked |-> FALSE, created |-> 0,
          connected |-> TRUE, client |-> client[c]]
    ELSE IF Missing(env, "INFLOW_API_KEY")
    THEN [ok |-> FALSE, error |-> ApiKeyNotSet, checked |-> TRUE, created |-> 0,
          connected |-> FALSE, client |-> client[c]]
    ELSE IF Missing(env, "INFLOW_COMPANY_ID")
    THEN [ok |-> FALSE, error |-> CompanyIdNotSet, checked |-> TRUE, created |-> 0,
          connected |-> FALSE, client |-> client[c]]
    ELSE [ok |-> link = "up", error |-> IF link = "up" THEN "" ELSE TransportError,
          checked |-> TRUE, created |-> 1, connected |-> link = "up", client |-> TRUE]

\* what `await this.connect()` leaves in the client, and whether the remote
\* operation that follows it was invoked
Wire(c, link, invoked) ==
    LET did == connecting(c, link) IN
    /\ connected' = [connected EXCEPT ![c] = did.connected]
    /\ client' = [client EXCEPT ![c] = did.client]
    /\ wire' = [checked |-> did.checked, created |-> did.created, invoked |-> invoked]
    /\ UNCHANGED <<processEnv, configEnv>>

connect(c, link) ==
    /\ Wire(c, link, 0)
    /\ UNCHANGED <<entries, hits, misses, enabled, cacheDisabled, now, remoteVer, switchedOff>>
    /\ Returned("connect", connecting(c, link).ok,
           IF connecting(c, link).ok THEN NoValue ELSE Thrown(connecting(c, link).error),
           0, <<>>)

disconnect(c) ==
    /\ connected' = [connected EXCEPT ![c] = IF client[c] /\ connected[c] THEN FALSE ELSE @]
    /\ wire' = Unwired
    /\ UNCHANGED <<processEnv, configEnv, client>>
    /\ UNCHANGED <<entries, hits, misses, enabled, cacheDisabled, now, remoteVer, switchedOff>>
    /\ Returned("disconnect", TRUE, NoValue, 0, <<>>)

\* listTools, where client.listTools() resolves with result.tools or rejects
ListOutcomes == {"tools", TransportError}

listTools(c, link, outcome) ==
    LET did == connecting(c, link) IN
    /\ Wire(c, link, IF did.ok THEN 1 ELSE 0)
    /\ UNCHANGED <<entries, hits, misses, enabled, cacheDisabled, now, remoteVer, switchedOff>>
    /\ Returned("listTools", did.ok /\ outcome = "tools",
           IF ~did.ok THEN Thrown(did.error)
           ELSE IF outcome = "tools" THEN [tools |-> outcome] ELSE Thrown(outcome),
           IF did.ok THEN 1 ELSE 0, <<>>)

\* content items: {type: "text", text} and an item of another type
Text(text) == [type |-> "text", text |-> text]

Image == [type |-> "image", text |-> Undefined]

\* JSON.parse over the texts explored: the value of a JSON text, and a
\* SyntaxError for the others
JsonValues ==
    ("{\"id\":1}" :> [type |-> "object", members |-> "id=1"]) @@
    (" { \"id\" : 1 } " :> [type |-> "object", members |-> "id=1"]) @@
    ("null" :> [type |-> "null", members |-> ""]) @@
    ("12" :> [type |-> "number", members |-> "12"])

JSON_parse(text) ==
    IF text \in DOMAIN JsonValues
    THEN [ok |-> TRUE, value |-> JsonValues[text]]
    ELSE [ok |-> FALSE, value |-> [type |-> "SyntaxError", members |-> ""]]

\* content.find((c) => c.type === "text"): the position of the first text
\* item, 0 when there is none
find(content) ==
    LET at == {i \in 1..Len(content) : content[i].type = "text"}
    IN IF at = {} THEN 0 ELSE CHOOSE i \in at : \A j \in at : i <= j

\* x?.text is truthy
hasText(content, i) ==
    i # 0 /\ content[i].text # Undefined /\ content[i].text # ""

\* errorContent?.text || "Tool call failed"
errorOf(content) ==
    IF hasText(content, find(content)) THEN content[find(content)].text
    ELSE ToolCallFailed

\* variant: JSON.parse outside a try
payloadOf_ParseThrows(content) ==
    LET textContent == find(content) IN
    IF hasText(content, textContent)
    THEN IF JSON_parse(content[textContent].text).ok
         THEN [ok |-> TRUE, value |-> [parsed |-> JSON_parse(content[textContent].text).value]]
         ELSE [ok |-> FALSE, value |-> Thrown("SyntaxError")]
    ELSE [ok |-> TRUE, value |-> [content |-> content]]

\* the value returned for a result that is not flagged: the parsed text, the
\* text as it is, or the content list
payloadOf(content) ==
    LET textContent == find(content) IN
    IF hasText(content, textContent)
    THEN IF JSON_parse(content[textContent].text).ok
         THEN [ok |-> TRUE, value |-> [parsed |-> JSON_parse(content[textContent].text).value]]
         ELSE [ok |-> TRUE, value |-> [text |-> content[textContent].text]]
    ELSE [ok |-> TRUE, value |-> [content |-> content]]

\* variant: a flagged result is normalised like any other
toolResult_IgnoresFlag(result) ==
    IF result.rejected THEN [ok |-> FALSE, value |-> Thrown(TransportError)]
    ELSE payloadOf(result.content)

\* callTool after the connect: client.callTool() rejects, or resolves with
\* result = {isError, content}
toolResult(result) ==
    IF result.rejected THEN [ok |-> FALSE, value |-> Thrown(TransportError)]
    ELSE IF result.isError THEN [ok |-> FALSE, value |-> Thrown(errorOf(result.content))]
    ELSE payloadOf(result.content)

\* callTool of client c: the connect, the remote operation and the result
callToolOf(c, link, result) ==
    IF connecting(c, link).ok THEN toolResult(result)
    ELSE [ok |-> FALSE, value |-> Thrown(connecting(c, link).error)]

\* the same, as an outcome of callTool
outcomeOf(c, link, result) ==
    IF callToolOf(c, link, result).ok THEN "ok"
    ELSE callToolOf(c, link, result).value.error

\* callTool called on its own
callToolDirect(c, link, result) ==
    /\ Wire(c, link, IF connecting(c, link).ok THEN 1 ELSE 0)
    /\ UNCHANGED <<entries, hits, misses, enabled, cacheDisabled, now, remoteVer, switchedOff>>
    /\ Returned("callTool", callToolOf(c, link, result).ok,
           callToolOf(c, link, result).value, 1, <<>>)

\* an accessor of client c over this gateway: the connection is touched when
\* the accessor came to its callTool, and only then
Through(c, link) ==
    IF last'.remoteCalls = 0
    THEN /\ wire' = Unwired
         /\ UNCHANGED <<processEnv, configEnv, connected, client>>
    ELSE Wire(c, link, IF connecting(c, link).ok THEN 1 ELSE 0)

\* the environment the process runs in
setEnv(process, config) ==
    /\ processEnv' = process
    /\ configEnv' = config
    /\ UNCHANGED <<connected, client, wire>>
    /\ UNCHANGED <<entries, hits, misses, enabled, cacheDisabled, now, remoteVer, last,
                   switchedOff>>

Links == {"up", "down"}

Env(key, company) == [k \in Credentials |-> IF k = "INFLOW_API_KEY" THEN key ELSE company]

ProcessEnvs == {Env("key", "company"), Env(Undefined, "company"), Env("key", "")}

ConfigEnvs == {Env(Undefined, Undefined), Env("", "company2")}

Contents ==
    { <<>>, <<Image>>, <<Text("")>>, <<Text(Undefined)>>,
      <<Text("{\"id\":1}")>>, <<Text(" { \"id\" : 1 } ")>>, <<Text("null")>>,
      <<Text("Product not found")>>, <<Text(" ")>>,
      <<Image, Text("12")>>, <<Text(""), Text("12")>>,
      <<Text("Product not found"), Text("12")>> }

Rejected == [rejected |-> TRUE, isError |-> FALSE, content |-> <<>>]

RawResults ==
    {Rejected} \cup
    {[rejected |-> FALSE, isError |-> e, content |-> content] :
         e \in BOOLEAN, content \in Contents}

\* the results an accessor is run against
AccessorResults ==
    {Rejected} \cup
    {[rejected |-> FALSE, isError |-> e, content |-> content] :
         e \in BOOLEAN, content \in { <<Image>>, <<Text("Product not found")>> }}

----------------------------------------------------------------------------
\* Overlapping calls: every asynchronous call runs up to its next await, and
\* the calls that wait are resumed in any order

Tasks == {"t1", "t2", "t3"}

Idle ==
    [pc |-> "idle", op |-> "none", client |-> CliClient, key |-> "", ttl |-> 0,
     stores |-> FALSE, result |-> [ok |-> TRUE, value |-> NoValue]]

\* a call that has returned or thrown `result`
Settled(task, result) == [task EXCEPT !.pc = "done", !.result = result]

\* callTool up to its first suspension: connect() returns at once on a connected
\* client and the request is sent; else it checks the credentials, creates the
\* transport and the client, and waits for client.connect(transport)
callTool_begin(t, task) ==
    LET c == task.client
        env == mergedEnv(processEnv, configEnv) IN
    IF connected[c]
    THEN /\ tasks' = [tasks EXCEPT ![t] = [task EXCEPT !.pc = "awaiting"]]
         /\ UNCHANGED client
    ELSE IF Missing(env, "INFLOW_API_KEY")
    THEN /\ tasks' = [tasks EXCEPT ![t] =
                         Settled(task, [ok |-> FALSE, value |-> Thrown(ApiKeyNotSet)])]
         /\ UNCHANGED client
    ELSE IF Missing(env, "INFLOW_COMPANY_ID")
    THEN /\ tasks' = [tasks EXCEPT ![t] =
                         Settled(task, [ok |-> FALSE, value |-> Thrown(CompanyIdNotSet)])]
         /\ UNCHANGED client
    ELSE /\ tasks' = [tasks EXCEPT ![t] = [task EXCEPT !.pc = "connecting"]]
         /\ client' = [client EXCEPT ![c] = TRUE]

\* variant: a miss on a key that a call under way is fetching waits for that
\* call instead of running its own producer
getOrFetch_begin_SingleFlight(t, c, op, key, ttl, bypassCache) ==
    LET task == [Idle EXCEPT !.op = op, !.client = c, !.key = key, !.ttl = ttl] IN
    /\ tasks[t].pc = "idle"
    /\ UNCHANGED <<enabled, cacheDisabled, now, remoteVer, switchedOff, flow>>
    /\ UNCHANGED <<indexVars, processEnv, configEnv, connected, wire, established>>
    /\ IF enabled /\ ~bypassCache
       THEN IF Fresh(entries, key, now)
            THEN /\ hits' = hits + 1
                 /\ tasks' = [tasks EXCEPT ![t] =
                                 Settled(task, [ok |-> TRUE, value |-> entries[key].value])]
                 /\ UNCHANGED <<entries, misses, client>>
                 /\ Returned("hit", TRUE, entries[key].value, 0, <<>>)
            ELSE /\ misses' = misses + 1
                 /\ entries' = Drop(entries, key)
                 /\ IF \E u \in Tasks : /\ tasks[u].pc \in {"connecting", "awaiting", "served"}
                                         /\ tasks[u].stores /\ tasks[u].key = key
                    THEN /\ tasks' = [tasks EXCEPT ![t] = [task EXCEPT !.pc = "joined"]]
                         /\ UNCHANGED client
                    ELSE callTool_begin(t, [task EXCEPT !.stores = TRUE])
                 /\ UNCHANGED <<hits, last>>
       ELSE /\ callTool_begin(t, task)
            /\ UNCHANGED <<entries, hits, misses, last>>

\* cache.getOrFetch up to the await of its producer
getOrFetch_begin(t, c, op, key, ttl, bypassCache) ==
    LET task == [Idle EXCEPT !.op = op, !.client = c, !.key = key, !.ttl = ttl] IN
    /\ tasks[t].pc = "idle"
    /\ UNCHANGED <<enabled, cacheDisabled, now, remoteVer, switchedOff, flow>>
    /\ UNCHANGED <<indexVars, processEnv, configEnv, connected, wire, established>>
    /\ IF enabled /\ ~bypassCache
       THEN IF Fresh(entries, key, now)
            THEN /\ hits' = hits + 1
                 /\ tasks' = [tasks EXCEPT ![t] =
                                 Settled(task, [ok |-> TRUE, value |-> entries[key].value])]
                 /\ UNCHANGED <<entries, misses, client>>
                 /\ Returned("hit", TRUE, entries[key].value, 0, <<>>)
            ELSE /\ misses' = misses + 1
                 /\ entries' = Drop(entries, key)
                 /\ callTool_begin(t, [task EXCEPT !.stores = TRUE])
                 /\ UNCHANGED <<hits, last>>
       ELSE /\ callTool_begin(t, task)
            /\ UNCHANGED <<entries, hits, misses, last>>

getProduct_begin(t, c, productId) ==
    getOrFetch_begin(t, c, "getProduct",
        createCacheKey("product", << <<"id", productId>>, <<"include", Undefined>> >>),
        TTL_FIFTEEN_MINUTES, cacheDisabled[c])

upsertProduct_begin(t, c) ==
    /\ tasks[t].pc = "idle"
    /\ callTool_begin(t, [Idle EXCEPT !.op = "upsertProduct", !.client = c])
    /\ UNCHANGED <<cacheVars, indexVars, processEnv, configEnv, connected, wire, established>>

\* cache.getOrFetch once its producer has come to `result`: it stores what the
\* producer returned and hands it back, and lets an Error through
getOrFetch_resumed(task, result) ==
    /\ entries' = IF task.stores /\ result.ok
                  THEN Put(entries, task.key, result.value, now + task.ttl)
                  ELSE entries
    /\ Returned(IF task.stores THEN "miss" ELSE "bypass", result.ok, result.value, 1, <<>>)

\* upsertProduct once callTool has come to `result`: the product views are
\* purged when it returned, and nothing is when it threw
upsertProduct_resumed(task, result) ==
    LET purge == IF result.ok
                 THEN <<"products", "product:", "products_search", "product_bom", "bom">>
                 ELSE <<>> IN
    /\ entries' = invalidatePatterns(entries, purge)
    /\ Returned("write", result.ok, result.value, 1, purge)

\* what a call does once it is resumed with `result`
resumed(task, result) ==
    IF task.op = "upsertProduct"
    THEN upsertProduct_resumed(task, result)
    ELSE getOrFetch_resumed(task, result)

\* `await this.client.connect(this.transport)` resolves (link is "up") and
\* callTool sends its request, or rejects and the call throws
connect_resumed(t, link) ==
    LET task == tasks[t]
        c == task.client
        thrown == [ok |-> FALSE, value |-> Thrown(TransportError)] IN
    /\ task.pc = "connecting"
    /\ UNCHANGED <<hits, misses, enabled, cacheDisabled, now, remoteVer, switchedOff, flow>>
    /\ UNCHANGED <<indexVars, processEnv, configEnv, client, wire>>
    /\ IF link = "up"
       THEN /\ connected' = [connected EXCEPT ![c] = TRUE]
            /\ established' = [established EXCEPT ![c] = @ + 1]
            /\ tasks' = [tasks EXCEPT ![t] = [task EXCEPT !.pc = "awaiting"]]
            /\ UNCHANGED <<entries, last>>
       ELSE /\ tasks' = [tasks EXCEPT ![t] = Settled(task, thrown)]
            /\ resumed(task, thrown)
            /\ UNCHANGED <<connected, established>>

\* the remote service works on the request of a call: a read is answered with
\* the data held at that moment, a successful write changes the data
callTool_served(t, outcome) ==
    LET task == tasks[t]
        writes == task.op = "upsertProduct" /\ outcome = "ok"
        version == IF writes THEN remoteVer + 1 ELSE remoteVer IN
    /\ task.pc = "awaiting"
    /\ writes => remoteVer < MaxVersion
    /\ remoteVer' = version
    /\ tasks' = [tasks EXCEPT ![t] =
                    [task EXCEPT !.pc = "served",
                                 !.result = IF outcome = "ok"
                                            THEN [ok |-> TRUE, value |-> Payload(version)]
                                            ELSE [ok |-> FALSE, value |-> Thrown(outcome)]]]
    /\ UNCHANGED <<entries, hits, misses, enabled, cacheDisabled, now, flow, last, switchedOff>>
    /\ UNCHANGED <<indexVars, gatewayVars, established>>

\* the response of the remote service is delivered and the call runs to its end
call_resumed(t) ==
    LET task == tasks[t] IN
    /\ task.pc = "served"
    /\ tasks' = [tasks EXCEPT ![t] = Settled(task, task.result)]
    /\ resumed(task, task.result)
    /\ UNCHANGED <<hits, misses, enabled, cacheDisabled, now, remoteVer, switchedOff, flow>>
    /\ UNCHANGED <<indexVars, gatewayVars, established>>

\* disconnect() of client c
disconnecting(c) ==
    /\ client[c] /\ connected[c]
    /\ connected' = [connected EXCEPT ![c] = FALSE]
    /\ established' = [established EXCEPT ![c] = 0]
    /\ UNCHANGED <<cacheVars, indexVars, processEnv, configEnv, client, wire, tasks>>


----------------------------------------------------------------------------
\* a command that is one client call over the gateway
Wired(A) ==
    /\ ~Running
    /\ A
    /\ flow' = IdleFlow
    /\ UNCHANGED <<indexVars, overlapVars>>

Init ==
    /\ entries = <<>>
    /\ hits = 0
    /\ misses = 0
    /\ enabled = TRUE
    /\ cacheDisabled = [c \in Clients |-> FALSE]
    /\ now = 0
    /\ remoteVer = 0
    /\ flow = IdleFlow
    /\ last = [how |-> "none", ok |-> TRUE, value |-> NoValue, remoteCalls |-> 0,
               patterns |-> <<>>, removed |-> 0]
    /\ switchedOff = FALSE
    /\ indexPc = "idle"
    /\ remoteOrders = [count |-> 0, hot |-> [p \in HotPositions |-> "none"]]
    /\ maxOrders = 0
    /\ skip = 0
    /\ allOrders = <<>>
    /\ serialIndex = <<>>
    /\ serials = <<>>
    /\ productIndex = <<>>
    /\ processEnv = Env("key", "company")
    /\ configEnv = Env(Undefined, Undefined)
    /\ connected = [c \in Clients |-> FALSE]
    /\ client = [c \in Clients |-> FALSE]
    /\ wire = Unwired
    /\ tasks = [t \in Tasks |-> Idle]
    /\ established = [c \in Clients |-> 0]

Reads ==
    \E c \in Callers, o \in ToolOutcomes :
        \/ \E l \in Limits : Call(listProducts(c, l, o))
        \/ \E id \in Ids : Call(getProduct(c, id, o))
        \/ Call(searchProducts(c, "q", o))
        \/ Call(getBillOfMaterials(c, "1", o))
        \/ Call(listCategories(c, o))
        \/ Call(getProductWithBom(c, "1", o))
        \/ \E id \in {"1", Undefined} : Call(getStockLevels(c, id, o))
        \/ Call(listStockAdjustments(c, Undefined, o))
        \/ Call(getStockAdjustment(c, "1", o))
        \/ Call(listStockTransfers(c, o))
        \/ Call(getStockTransfer(c, "1", o))
        \/ Call(listStockCounts(c, o))
        \/ Call(getStockCount(c, "1", o))
        \/ Call(listAdjustmentReasons(c, o))
        \/ Call(listSalesOrders(c, o))
        \/ Call(getSalesOrder(c, "1", o))
        \/ Call(searchSalesOrders(c, "q", o))
        \/ Call(listPurchaseOrders(c, o))
        \/ \E id \in Ids : Call(getPurchaseOrder(c, id, "lines", o))
        \/ Call(listLocations(c, o))
        \/ Call(getLocation(c, "1", o))
        \/ Call(searchSerial(c, "ab", NoOrders, "data", o))
        \/ Call(listSerials(c, 0, "", NoOrders, "data", o))
        \/ Call(getProductSerials(c, "1", o))
        \/ Call(listAllSerials(c, o))
        \/ Call(searchSerialByProduct(c, "ab", <<>>, o))
        \/ Call(listCustomers(c, o))
        \/ Call(listVendors(c, Undefined, o))
        \/ Call(getVendor(c, o))

Writes ==
    \E c \in Callers, o \in ToolOutcomes :
        \/ Call(upsertProduct(c, o))
        \/ Call(createStockAdjustment(c, o))
        \/ Call(createStockTransfer(c, o))
        \/ Call(createStockCount(c, o))
        \/ Call(upsertVendor(c, o))
        \/ Call(upsertPurchaseOrder(c, o))
        \/ Call(receivePurchaseOrder(c, o))
        \/ \E dryRun \in BOOLEAN : Call(unreceivePurchaseOrder(c, dryRun, o))

Controls ==
    \E c \in Clients :
        \/ Call(disableCache(c))
        \/ Call(enableCache(c))
        \/ Call(clearCache(c))
        \/ \E k \in DOMAIN entries : Call(invalidateCacheKey(c, k))

Next ==
    \/ Reads
    \/ Writes
    \/ Controls
    \/ UpdateProductCmd
    \/ AddPoItemCmd
    \/ UpdatePurchaseOrderCmd

Spec == Init /\ [][Next]_vars

\* expiry: the three TTL tiers against the clock and a changing remote
NextTTL ==
    \/ \E c \in Callers, o \in ToolOutcomes :
        \/ \E id \in Ids : Call(getProduct(c, id, o))
        \/ Call(getStockLevels(c, "1", o))
        \/ Call(getBillOfMaterials(c, "1", o))
    \/ Tick
    \/ RemoteChange

SpecTTL == Init /\ [][NextTTL]_vars

\* one process that builds one serial index
NextIndex ==
    \/ \E limit \in OrderLimits, remote \in RemoteOrderLists :
          buildSerialIndex(limit, remote)
    \/ \E o \in ToolOutcomes, form \in ResultForms : buildSerialIndex_page(o, form)
    \/ \E o \in ToolOutcomes, list \in SerialLists : buildSerialIndexFromProducts(o, list)
    \/ \E o \in ToolOutcomes, shape \in OrderShapes :
          getOrderSerialsCmd("1", OrderOf(shape), o)

SpecIndex == Init /\ [][NextIndex]_vars

\* the serial searches against a clock, with single keys invalidated
NextSerial ==
    \/ \E c \in Callers, o \in ToolOutcomes, q \in Queries,
          remote \in SearchRemotes, form \in ResultForms :
          Call(searchSerial(c, q, remote, form, o))
    \/ \E c \in Callers, o \in ToolOutcomes, limit \in {0, 1}, productId \in {"", "P1"},
          remote \in SearchRemotes :
          Call(listSerials(c, limit, productId, remote, "data", o))
    \/ \E c \in Callers, o \in ToolOutcomes, q \in Queries, list \in SearchSerialLists :
          Call(searchSerialByProduct(c, q, list, o))
    \/ \E c \in Callers, k \in DOMAIN entries : Call(invalidateCacheKey(c, k))
    \/ Tick

SpecSerial == Init /\ [][NextSerial]_vars

\* the gateway: a client in a changing environment, and accessors over it
NextGateway ==
    \/ \E c \in Callers, link \in Links : Wired(connect(c, link))
    \/ \E c \in Callers : Wired(disconnect(c))
    \/ \E c \in Callers, link \in Links, o \in ListOutcomes : Wired(listTools(c, link, o))
    \/ \E c \in Callers, link \in Links, result \in RawResults :
          Wired(callToolDirect(c, link, result))
    \/ \E c \in Callers, link \in Links, result \in AccessorResults,
          productId \in {Undefined, "", "1"} :
          Wired(getStockLevels(c, productId, outcomeOf(c, link, result)) /\ Through(c, link))
    \/ \E c \in Callers, link \in Links, result \in AccessorResults :
          Wired(upsertProduct(c, outcomeOf(c, link, result)) /\ Through(c, link))
    \/ \E process \in ProcessEnvs, config \in ConfigEnvs :
          Wired(setEnv(process, config))

SpecGateway == Init /\ [][NextGateway]_vars

\* calls of the clients that overlap at their awaits
NextOverlap ==
    \/ \E t \in Tasks, c \in Clients, productId \in Ids : getProduct_begin(t, c, productId)
    \/ \E t \in Tasks, c \in Clients : upsertProduct_begin(t, c)
    \/ \E t \in Tasks, link \in Links : connect_resumed(t, link)
    \/ \E t \in Tasks, o \in ToolOutcomes : callTool_served(t, o)
    \/ \E t \in Tasks : call_resumed(t)
    \/ \E c \in Clients : disconnecting(c)

SpecOverlap == Init /\ [][NextOverlap]_vars

----------------------------------------------------------------------------
\* Helpers of the properties

\* `store` without the entries whose key begins with one of `prefixes`
Without(store, prefixes) ==
    [k \in {x \in DOMAIN store : \A p \in prefixes : ~StartsWith(x, p)} |-> store[k]]

AnyWrite(c, o) ==
    \/ upsertProduct(c, o)
    \/ upsertVendor(c, o)
    \/ upsertPurchaseOrder(c, o)
    \/ receivePurchaseOrder(c, o)
    \/ \E dryRun \in BOOLEAN : unreceivePurchaseOrder(c, dryRun, o)
    \/ createStockAdjustment(c, o)
    \/ createStockTransfer(c, o)
    \/ createStockCount(c, o)

ProductRead(c, o) ==
    \/ \E l \in Limits : listProducts(c, l, o)
    \/ \E id \in Ids : getProduct(c, id, o)
    \/ searchProducts(c, "q", o)
    \/ getProductWithBom(c, "1", o)
    \/ getBillOfMaterials(c, "1", o)

\* a call of any cached accessor, by client c
AnyRead(c, o) ==
    \/ ProductRead(c, o)
    \/ listCategories(c, o)
    \/ getStockLevels(c, "1", o)
    \/ listStockAdjustments(c, Undefined, o)
    \/ getStockAdjustment(c, "1", o)
    \/ listStockTransfers(c, o)
    \/ getStockTransfer(c, "1", o)
    \/ listStockCounts(c, o)
    \/ getStockCount(c, "1", o)
    \/ listAdjustmentReasons(c, o)
    \/ listSalesOrders(c, o)
    \/ getSalesOrder(c, "1", o)
    \/ searchSalesOrders(c, "q", o)
    \/ listPurchaseOrders(c, o)
    \/ \E id \in Ids : getPurchaseOrder(c, id, "lines", o)
    \/ listLocations(c, o)
    \/ getLocation(c, "1", o)
    \/ searchSerial(c, "ab", NoOrders, "data", o)
    \/ listSerials(c, 0, "", NoOrders, "data", o)
    \/ getProductSerials(c, "1", o)
    \/ listAllSerials(c, o)
    \/ searchSerialByProduct(c, "ab", <<>>, o)
    \/ listCustomers(c, o)
    \/ listVendors(c, Undefined, o)

----------------------------------------------------------------------------
\* C1: when the remote write of a write accessor fails, the error reaches the
\* caller, no invalidatePattern call is executed and the cache entries are
\* exactly what they were before the call.
C1_FailedWriteKeepsCache ==
    [][ (last'.how = "write" /\ \E c \in Callers : AnyWrite(c, "fails")) =>
            /\ ~last'.ok
            /\ last'.patterns = <<>>
            /\ entries' = entries ]_vars

\* a write has just failed and a stock entry is still cached
C1_Witness ==
    /\ last.how = "write"
    /\ ~last.ok
    /\ \E k \in DOMAIN entries : StartsWith(k, "stock")

\* C2: after a successful upsertProduct no key beginning with products,
\* product:, products_search, product_bom or bom is left, and the next call of
\* listProducts, getProduct, searchProducts, getProductWithBom or
\* getBillOfMaterials invokes the remote service.
C2_ProductWritePurgesProductViews ==
    [][ /\ (last'.how = "write" /\ \E c \in Callers : upsertProduct(c, "ok")) =>
               \A k \in DOMAIN entries' :
                   \A p \in {"products", "product:", "products_search", "product_bom", "bom"} :
                       ~StartsWith(k, p)
        /\ ( /\ last.how = "write" /\ last.ok
             /\ last.patterns = <<"products", "product:", "products_search", "product_bom", "bom">>
             /\ \E c \in Callers, o \in ToolOutcomes : ProductRead(c, o) ) =>
               last'.remoteCalls = 1 ]_vars

\* upsertProduct has succeeded, it removed an entry and another one survived
C2_Witness ==
    /\ last.how = "write" /\ last.ok
    /\ last.patterns = <<"products", "product:", "products_search", "product_bom", "bom">>
    /\ last.removed >= 1
    /\ entries # <<>>

\* C3: a successful createStockAdjustment, createStockTransfer or
\* createStockCount removes every entry whose key begins with "stock" and
\* leaves every other entry as it was, value and expiry included.
C3_StockWritePurgesOnlyStock ==
    [][ (last'.how = "write" /\
         \E c \in Callers : \/ createStockAdjustment(c, "ok")
                             \/ createStockTransfer(c, "ok")
                             \/ createStockCount(c, "ok")) =>
            /\ \A k \in DOMAIN entries' : ~StartsWith(k, "stock")
            /\ \A k \in DOMAIN entries :
                   ~StartsWith(k, "stock") => (k \in DOMAIN entries' /\ entries'[k] = entries[k]) ]_vars

\* a stock write has succeeded, it removed an entry and another one survived
C3_Witness ==
    /\ last.how = "write" /\ last.ok
    /\ last.patterns = <<"stock">>
    /\ last.removed >= 1
    /\ entries # <<>>

\* C4: upsertVendor purges only the keys beginning with vendors,
\* upsertPurchaseOrder only those beginning with purchase_orders or
\* purchase_order:, receivePurchaseOrder those two prefixes plus stock; every
\* other entry survives.
C4_WritesPurgeTheirPrefixes ==
    [][ /\ (last'.how = "write" /\ \E c \in Callers : upsertVendor(c, "ok")) =>
               entries' = Without(entries, {"vendors"})
        /\ (last'.how = "write" /\ \E c \in Callers : upsertPurchaseOrder(c, "ok")) =>
               entries' = Without(entries, {"purchase_orders", "purchase_order:"})
        /\ (last'.how = "write" /\ \E c \in Callers : receivePurchaseOrder(c, "ok")) =>
               entries' = Without(entries, {"purchase_orders", "purchase_order:", "stock"}) ]_vars

\* receivePurchaseOrder has succeeded, it removed an entry and another survived
C4_Witness ==
    /\ last.how = "write" /\ last.ok
    /\ last.patterns = <<"purchase_orders", "purchase_order:", "stock">>
    /\ last.removed >= 1
    /\ entries # <<>>

\* what a getOrFetch on key K with TTL T does with caching enabled: while the
\* stored entry is younger than T it is a hit, at or after T (or with nothing
\* stored) the producer runs and its value is stored for T seconds from now
TtlContract(K, T) ==
    IF K \in DOMAIN entries /\ now < entries[K].expiresAt
    THEN /\ last'.how = "hit"
         /\ last'.value = entries[K].value
         /\ last'.remoteCalls = 0
         /\ hits' = hits + 1 /\ misses' = misses
         /\ entries' = entries
    ELSE /\ last'.remoteCalls = 1
         /\ misses' = misses + 1 /\ hits' = hits
         /\ last'.ok => ( /\ last'.value = Payload(remoteVer)
                          /\ K \in DOMAIN entries'
                          /\ entries'[K] = [value |-> Payload(remoteVer), expiresAt |-> now + T] )

\* C5: with caching enabled, after a miss on key K stored V1 for T seconds,
\* every getOrFetch on K before T seconds have elapsed returns V1 without
\* invoking the producer and increments only the hit counter; the first
\* getOrFetch on K at or after T seconds invokes the producer again.
C5_TtlServesUntilExpiry ==
    [][ /\ \A id \in Ids :
               (\E c \in Callers, o \in ToolOutcomes : getProduct(c, id, o)) =>
                   TtlContract(createCacheKey("product",
                       << <<"id", id>>, <<"include", Undefined>> >>), TTL_FIFTEEN_MINUTES)
        /\ (\E c \in Callers, o \in ToolOutcomes : getStockLevels(c, "1", o)) =>
               TtlContract(createCacheKey("stock", << <<"productId", "1">> >>), TTL_FIVE_MINUTES)
        /\ (\E c \in Callers, o \in ToolOutcomes : getBillOfMaterials(c, "1", o)) =>
               TtlContract(createCacheKey("bom", << <<"productId", "1">> >>), TTL_HOUR) ]_vars

\* a second getProduct, made after the remote data changed and before the
\* fifteen minutes were over, was served the value stored by the first
C5_Witness ==
    /\ hits = 1 /\ misses = 1
    /\ last.how = "hit"
    /\ last.value # Payload(remoteVer)
    /\ now > 0
    /\ \E id \in Ids :
          createCacheKey("product", << <<"id", id>>, <<"include", Undefined>> >>)
              \in DOMAIN entries

\* C6: from disableCache until the next enableCache every cached accessor
\* call invokes the remote service and leaves the entries and the hit/miss
\* counters unchanged; the read of the update-product, add-po-item and
\* update-purchase-order commands is never served from the cache nor stored.
C6_DisabledCacheIsBypassed ==
    [][ /\ ( /\ switchedOff
             /\ last'.how \in {"hit", "miss", "bypass"}
             /\ \E c \in Callers, o \in ToolOutcomes : AnyRead(c, o) ) =>
               /\ last'.how = "bypass"
               /\ last'.remoteCalls = 1
               /\ entries' = entries /\ hits' = hits /\ misses' = misses
        /\ (flow.pc = "disabled" /\ flow'.pc \in {"read", "failed"}) =>
               /\ last'.how = "bypass"
               /\ last'.remoteCalls = 1
               /\ entries' = entries /\ hits' = hits /\ misses' = misses ]_vars

\* the read of update-product has gone to the remote service although the
\* product was cached
C6_Witness ==
    /\ flow = [cmd |-> "update-product", pc |-> "read"]
    /\ switchedOff
    /\ last.how = "bypass" /\ last.ok
    /\ \E id \in Ids :
          createCacheKey("product", << <<"id", id>>, <<"include", Undefined>> >>)
              \in DOMAIN entries

\* C7: every execution of update-product, add-po-item and
\* update-purchase-order ends with caching enabled again, a failed read
\* included.
C7_FlowsReenableCache ==
    flow.pc \in {"done", "failed"} => (enabled /\ ~cacheDisabled[CliClient])

----------------------------------------------------------------------------
\* Helpers of the serial-index properties

Sources(order) == <<order.packLines, order.pickLines, order.lines>>

\* the places <<source, line, serial>> of `order` where a serial that
\* normalizes to K is written
Places(order, K) ==
    {pl \in (1..3) \X (1..2) \X (1..3) :
        /\ pl[2] <= Len(Sources(order)[pl[1]])
        /\ Sources(order)[pl[1]][pl[2]].hasSerials
        /\ pl[3] <= Len(Sources(order)[pl[1]][pl[2]].serialNumbers)
        /\ Sources(order)[pl[1]][pl[2]].serialNumbers[pl[3]] # ""
        /\ normalize(Sources(order)[pl[1]][pl[2]].serialNumbers[pl[3]]) = K}

\* place p comes before place q in the order packLines, pickLines, lines, then
\* line by line, then serial by serial
Before(p, q) ==
    \/ p[1] < q[1]
    \/ p[1] = q[1] /\ p[2] < q[2]
    \/ p[1] = q[1] /\ p[2] = q[2] /\ p[3] <= q[3]

FirstPlace(order, K) ==
    CHOOSE p \in Places(order, K) : \A q \in Places(order, K) : Before(p, q)

\* the positions of allOrders whose order carries K
Carriers(K) == {i \in 1..Len(allOrders) : Places(allOrders[i], K) # {}}

FirstCarrier(K) == CHOOSE i \in Carriers(K) : \A j \in Carriers(K) : i <= j

NormalizedSerials == {"AB", "CD", ""}

\* C8: with a cap L given, the orders buildSerialIndex indexes never exceed L.
C8_IndexedOrdersWithinCap ==
    (indexPc = "done" /\ maxOrders > 0) => Len(allOrders) <= maxOrders

\* C9: in the order-based index the entry of a serial carries the
\* salesOrderId, orderNumber, orderDate and productId of the first order in
\* pagination order that carries the serial (and of the first place in it, in
\* the order packLines, pickLines, lines), whatever the order dates and the
\* line sources are; indexing one more order never changes an entry already
\* written.
C9_FirstOrderWins ==
    indexPc = "done" =>
        /\ DOMAIN serialIndex = {K \in NormalizedSerials : Carriers(K) # {}}
        /\ \A K \in DOMAIN serialIndex :
              LET order == allOrders[FirstCarrier(K)]
                  p == FirstPlace(order, K)
              IN /\ serialIndex[K].salesOrderId = order.salesOrderId
                 /\ serialIndex[K].orderNumber = order.orderNumber
                 /\ serialIndex[K].orderDate = order.orderDate
                 /\ serialIndex[K].productId = Sources(order)[p[1]][p[2]].productId
        /\ \A n \in HotPositions \cap (1..Len(allOrders)) :
              LET before == indexOrders(SubSeq(allOrders, 1, n - 1), <<>>)
                  after == indexOrders(SubSeq(allOrders, 1, n), <<>>)
              IN \A K \in DOMAIN before : K \in DOMAIN after /\ after[K] = before[K]

\* the index holds under AB the first order although a later order, dated
\* earlier, carries the same serial in another line source
C9_Witness ==
    /\ indexPc = "done"
    /\ "AB" \in DOMAIN serialIndex
    /\ serialIndex["AB"].salesOrderId = 1
    /\ \E j \in Carriers("AB") :
          /\ j > 100
          /\ allOrders[j].orderDate # allOrders[1].orderDate
          /\ FirstPlace(allOrders[j], "AB")[1] # FirstPlace(allOrders[1], "AB")[1]

\* the positions of result.serials whose record normalizes to K
Records(K) == {i \in 1..Len(serials) : normalize(serials[i].serial) = K}

\* C10: in the product-based index, too, the entry of a serial is the one
\* from the first record that normalizes to it.
C10_FirstRecordWins ==
    indexPc = "products_done" =>
        \A K \in DOMAIN productIndex :
            \E i \in Records(K) :
                /\ \A j \in Records(K) : i <= j
                /\ productIndex[K].productId = serials[i].productId

----------------------------------------------------------------------------
\* Helpers of the serial-search properties

\* the index a search is answered from: the fresh entry, else what the
\* producer built
Served(key, produced) ==
    IF key \in DOMAIN entries /\ now < entries[key].expiresAt
    THEN entries[key].value
    ELSE produced

\* the answer for the normalized serial K against `index`
Found(index, K, answer) ==
    /\ answer.found
    /\ \A f \in DOMAIN index[K] : f \in DOMAIN answer /\ answer[f] = index[K][f]
NotFound(K, answer) ==
    /\ ~answer.found
    /\ answer.serial = K
    /\ Len(answer.message) > 0

\* the step is a search of the order-based index that got its index
OrderSearch(q, remote, form, o) ==
    /\ last'.how \in {"hit", "miss"}
    /\ last'.ok
    /\ \E c \in Callers : searchSerial(c, q, remote, form, o)

\* the step is a search of the product-based index that got its index
ProductSearch(q, list, o) ==
    /\ last'.how \in {"hit", "miss"}
    /\ last'.ok
    /\ \E c \in Callers : searchSerialByProduct(c, q, list, o)

\* C11: two queries that are equal after trimming and upper-casing get the
\* same answer from searchSerial against the same index, and likewise from
\* searchSerialByProduct: the answer is that of the normalized query alone, and
\* it is found exactly when the normalized query is a key of the index.
C11_SearchNormalizesQuery ==
    [][ \A q \in Queries, o \in ToolOutcomes :
          /\ \A remote \in SearchRemotes, form \in ResultForms :
                OrderSearch(q, remote, form, o) =>
                    LET index == Served("serial_index",
                                     orderIndexProducer(remote, form, "ok").value)
                    IN \A q2 \in Queries : normalize(q2) = normalize(q) =>
                          /\ last'.value.found = (normalize(q2) \in DOMAIN index)
                          /\ last'.value.found => Found(index, normalize(q2), last'.value)
                          /\ ~last'.value.found => NotFound(normalize(q2), last'.value)
          /\ \A list \in SearchSerialLists :
                ProductSearch(q, list, o) =>
                    LET index == Served("serial_index_products",
                                     productIndexProducer(list, "ok").value)
                    IN \A q2 \in Queries : normalize(q2) = normalize(q) =>
                          /\ last'.value.found = (normalize(q2) \in DOMAIN index)
                          /\ last'.value.found => Found(index, normalize(q2), last'.value)
                          /\ ~last'.value.found => NotFound(normalize(q2), last'.value) ]_vars

\* a search was answered from the cached order-based index and found the
\* serial under its normalized form
C11_Witness ==
    /\ last.how = "hit" /\ last.ok
    /\ "serial_index" \in DOMAIN entries
    /\ "found" \in DOMAIN last.value
    /\ last.value.found
    /\ last.value.serial = "AB"
    /\ last.value.salesOrderId = 1

\* C12: a search for a serial absent from the index returns normally, with
\* found = false, the normalized query as serial and a message; the cache entry
\* holding the index is what it was (a hit) or what the producer built (a miss).
C12_AbsentSerialIsNotAnError ==
    [][ \A q \in Queries, o \in ToolOutcomes :
          /\ \A remote \in SearchRemotes, form \in ResultForms :
                ( /\ last'.how \in {"hit", "miss"}
                  /\ (\E c \in Callers : searchSerial(c, q, remote, form, o))
                  /\ (Fresh(entries, "serial_index", now) \/ o = "ok")
                  /\ normalize(q) \notin DOMAIN Served("serial_index",
                         orderIndexProducer(remote, form, "ok").value) ) =>
                    /\ last'.ok
                    /\ last'.value = [found |-> FALSE, serial |-> normalize(q),
                                      message |-> NotFoundInOrders]
                    /\ "serial_index" \in DOMAIN entries'
                    /\ entries'["serial_index"].value =
                           Served("serial_index",
                               orderIndexProducer(remote, form, "ok").value)
                    /\ last'.how = "hit" => entries' = entries
          /\ \A list \in SearchSerialLists :
                ( /\ last'.how \in {"hit", "miss"}
                  /\ (\E c \in Callers : searchSerialByProduct(c, q, list, o))
                  /\ (Fresh(entries, "serial_index_products", now) \/ o = "ok")
                  /\ normalize(q) \notin DOMAIN Served("serial_index_products",
                         productIndexProducer(list, "ok").value) ) =>
                    /\ last'.ok
                    /\ last'.value = [found |-> FALSE, serial |-> normalize(q),
                                      message |-> NotFoundInProducts]
                    /\ "serial_index_products" \in DOMAIN entries'
                    /\ entries'["serial_index_products"].value =
                           Served("serial_index_products",
                               productIndexProducer(list, "ok").value)
                    /\ last'.how = "hit" => entries' = entries ]_vars

\* a search answered from a cached index that holds serials did not find its
\* serial
C12_Witness ==
    /\ last.how = "hit" /\ last.ok
    /\ "found" \in DOMAIN last.value
    /\ ~last.value.found
    /\ last.value.serial = "BD"
    /\ \E k \in DOMAIN entries : entries[k].value # <<>>

\* every entry but the one under `key` is what it was
OthersUntouched(key) ==
    /\ DOMAIN entries' \ {key} = DOMAIN entries \ {key}
    /\ \A k \in DOMAIN entries \ {key} : entries'[k] = entries[k]

\* C13: searchSerial and listSerials read and populate only the key
\* serial_index, for one hour; searchSerialByProduct only
\* serial_index_products, for fifteen minutes; building, expiring or
\* invalidating one entry changes neither the other entry nor the answer of a
\* search on the other.
C13_IndexesAreIndependent ==
    [][ /\ \A o \in ToolOutcomes, remote \in SearchRemotes :
              ( /\ last'.how \in {"hit", "miss", "bypass"}
                /\ \E c \in Callers :
                  \/ \E q \in Queries, form \in ResultForms :
                        searchSerial(c, q, remote, form, o)
                  \/ \E limit \in {0, 1}, productId \in {"", "P1"} :
                        listSerials(c, limit, productId, remote, "data", o) ) =>
                  /\ OthersUntouched("serial_index")
                  /\ last'.how = "miss" /\ last'.ok =>
                        entries'["serial_index"].expiresAt = now + 3600
                  /\ last'.how = "hit" =>
                        ("serial_index" \in DOMAIN entries /\ entries' = entries)
        /\ \A q \in Queries, o \in ToolOutcomes, remote \in SearchRemotes, form \in ResultForms :
              (last'.how = "hit" /\ \E c \in Callers : searchSerial(c, q, remote, form, o)) =>
                  last'.value.found = (normalize(q) \in DOMAIN entries["serial_index"].value)
        /\ \A o \in ToolOutcomes, list \in SearchSerialLists :
              ( /\ last'.how \in {"hit", "miss", "bypass"}
                /\ \E c \in Callers, q \in Queries : searchSerialByProduct(c, q, list, o) ) =>
                  /\ OthersUntouched("serial_index_products")
                  /\ last'.how = "miss" /\ last'.ok =>
                        entries'["serial_index_products"].expiresAt = now + 900
                  /\ last'.how = "hit" =>
                        ("serial_index_products" \in DOMAIN entries /\ entries' = entries)
        /\ \A q \in Queries, o \in ToolOutcomes, list \in SearchSerialLists :
              (last'.how = "hit" /\ \E c \in Callers : searchSerialByProduct(c, q, list, o)) =>
                  last'.value.found =
                      (normalize(q) \in DOMAIN entries["serial_index_products"].value)
        /\ \A k \in DOMAIN entries :
              (\E c \in Callers : invalidateCacheKey(c, k)) => OthersUntouched(k)
        /\ Tick => entries' = entries ]_vars

\* both indexes are cached with different contents; the product-based one has
\* expired and the order-based one has not
C13_Witness ==
    /\ "serial_index" \in DOMAIN entries
    /\ "serial_index_products" \in DOMAIN entries
    /\ entries["serial_index"].value # <<>>
    /\ entries["serial_index_products"].value # <<>>
    /\ DOMAIN entries["serial_index"].value # DOMAIN entries["serial_index_products"].value
    /\ now >= entries["serial_index_products"].expiresAt
    /\ now < entries["serial_index"].expiresAt

\* C14: once buildSerialIndex has completed, the index it built is the cache
\* entry serial_index that the searches are answered from.
C14_BuiltIndexIsCached ==
    indexPc = "done" =>
        /\ "serial_index" \in DOMAIN entries
        /\ entries["serial_index"].value = serialIndex

----------------------------------------------------------------------------
\* The gateway and the accessors over it

\* a step that is getStockLevels of client c with this productId
StockCall(c, productId) ==
    \E link \in Links, result \in AccessorResults :
        getStockLevels(c, productId, outcomeOf(c, link, result)) /\ Through(c, link)

\* C15: getStockLevels called with an absent or empty productId throws before
\* any cache or network interaction: the cache entries, the hit and miss
\* counters and the connection state are unchanged, nothing is connected and
\* no remote operation is invoked.
C15_StockLevelsFailsFast ==
    [][ \A c \in Callers, productId \in {Undefined, ""} :
            StockCall(c, productId) =>
                /\ ~last'.ok
                /\ last'.value = Thrown(ProductIdRequired)
                /\ last'.remoteCalls = 0
                /\ entries' = entries /\ hits' = hits /\ misses' = misses
                /\ connected' = connected /\ client' = client
                /\ wire' = Unwired ]_vars

\* getStockLevels without a productId was called on a client that never
\* connected, with an empty cache
C15_Witness ==
    /\ last.how = "invalid" /\ ~last.ok
    /\ last.value = Thrown(ProductIdRequired)
    /\ entries = <<>> /\ hits = 0 /\ misses = 0
    /\ \A c \in Clients : ~connected[c] /\ ~client[c]
    /\ wire = Unwired

StockKey == createCacheKey("stock", << <<"productId", "1">> >>)

\* C16: when the producer of a cached accessor throws, the same error reaches
\* the caller, the producer was run once, and no entry is stored for the key: a
\* key that was absent stays absent, and a call made while the key is absent
\* runs the producer.
C16_ProducerErrorPropagates ==
    [][ \A c \in Callers, link \in Links, result \in AccessorResults :
            ( /\ getStockLevels(c, "1", outcomeOf(c, link, result)) /\ Through(c, link)
              /\ last'.how \in {"miss", "bypass"} ) =>
                /\ last'.remoteCalls = 1
                /\ ~callToolOf(c, link, result).ok =>
                       /\ ~last'.ok
                       /\ last'.value = callToolOf(c, link, result).value
                       /\ StockKey \notin DOMAIN entries'
                       /\ StockKey \notin DOMAIN entries => entries' = entries
                       /\ hits' = hits ]_vars

\* two calls in a row missed, both producers threw the remote's message, and
\* nothing is stored
C16_Witness ==
    /\ last.how = "miss" /\ ~last.ok
    /\ last.value = Thrown("Product not found")
    /\ last.remoteCalls = 1
    /\ misses = 2 /\ hits = 0
    /\ entries = <<>>

\* a step in which client c goes through connect(): connect itself, listTools,
\* callTool, or an accessor that reached its callTool
GatewayStep(c, link) ==
    \/ last'.how = "connect" /\ connect(c, link)
    \/ last'.how = "listTools" /\ \E o \in ListOutcomes : listTools(c, link, o)
    \/ last'.how = "callTool" /\ \E result \in RawResults : callToolDirect(c, link, result)
    \/ /\ last'.how \in {"miss", "bypass", "write"}
       /\ last'.remoteCalls = 1
       /\ \E result \in AccessorResults :
              /\ \/ getStockLevels(c, "1", outcomeOf(c, link, result))
                 \/ upsertProduct(c, outcomeOf(c, link, result))
              /\ Through(c, link)

CredentialsMissing ==
    \E k \in Credentials : Missing(mergedEnv(processEnv, configEnv), k)

\* C17: nothing is connected before the first operation; the first listTools or
\* callTool of a client establishes the connection; once a client is connected
\* every further connect creates no transport and no client and leaves it
\* connected, and only disconnect ends the connection.
C17_ConnectIsLazyAndIdempotent ==
    /\ \A c \in Clients : ~connected[c] /\ ~client[c]
    /\ [][ /\ \A c \in Callers, link \in Links :
                  GatewayStep(c, link) =>
                      /\ connected[c] =>
                             /\ wire'.created = 0 /\ ~wire'.checked
                             /\ connected' = connected /\ client' = client
                      /\ (~connected[c] /\ ~CredentialsMissing /\ link = "up") =>
                             /\ wire'.created = 1
                             /\ connected' = [connected EXCEPT ![c] = TRUE]
           /\ \A c \in Clients :
                  /\ (~connected[c] /\ connected'[c]) => wire'.created = 1
                  /\ (connected[c] /\ ~connected'[c]) => last'.how = "disconnect" ]_vars

\* a callTool of a connected client returned over the connection it had
C17_Witness ==
    /\ last.how = "callTool" /\ last.ok
    /\ connected[CliClient]
    /\ wire = [checked |-> FALSE, created |-> 0, invoked |-> 1]

\* C18: when INFLOW_API_KEY or INFLOW_COMPANY_ID is missing from the merged
\* environment and the client is not connected, connect throws the
\* configuration error before a transport or a client is created: the client
\* stays unconnected and no remote operation is invoked; and every call of an
\* unconnected client looks at the credentials again.
C18_MissingCredentialsFailConnect ==
    [][ \A c \in Callers, link \in Links :
            (~connected[c] /\ GatewayStep(c, link)) =>
                /\ wire'.checked
                /\ CredentialsMissing =>
                       /\ ~last'.ok
                       /\ last'.value =
                              IF Missing(mergedEnv(processEnv, configEnv), "INFLOW_API_KEY")
                              THEN Thrown(ApiKeyNotSet) ELSE Thrown(CompanyIdNotSet)
                       /\ wire'.created = 0 /\ wire'.invoked = 0
                       /\ connected' = connected /\ client' = client ]_vars

\* a call failed on the company id set to nothing, on a client that has no
\* transport
C18_Witness ==
    /\ ~last.ok
    /\ last.value = Thrown(CompanyIdNotSet)
    /\ ~connected[CliClient] /\ ~client[CliClient]
    /\ wire = [checked |-> TRUE, created |-> 0, invoked |-> 0]

\* the text of the first text item of `content`, "" when it has none
FirstText(content) ==
    LET at == {i \in 1..Len(content) : content[i].type = "text"}
        first == CHOOSE i \in at : \A j \in at : i <= j
    IN IF at = {} \/ content[first].text = Undefined THEN "" ELSE content[first].text

Flagged == {result \in RawResults : ~result.rejected /\ result.isError}

\* C19: when the remote result is flagged as an error, callTool throws an
\* Error whose message is the text of the first text item, or "Tool call
\* failed" when that item is missing or empty; it returns no value, and a write
\* accessor built on it invalidates nothing.
C19_FlaggedResultThrows ==
    [][ \A c \in Callers, link \in Links, result \in Flagged :
            connecting(c, link).ok =>
                /\ (last'.how = "callTool" /\ callToolDirect(c, link, result)) =>
                       /\ ~last'.ok
                       /\ last'.value =
                              Thrown(IF FirstText(result.content) = "" THEN "Tool call failed"
                                     ELSE FirstText(result.content))
                /\ ( /\ last'.how = "write"
                     /\ upsertProduct(c, outcomeOf(c, link, result))
                     /\ Through(c, link) ) =>
                       /\ ~last'.ok
                       /\ last'.value =
                              Thrown(IF FirstText(result.content) = "" THEN "Tool call failed"
                                     ELSE FirstText(result.content))
                       /\ last'.patterns = <<>>
                       /\ entries' = entries ]_vars

\* a write was refused by the remote with its own message, and the entry
\* cached before it is still there
C19_Witness ==
    /\ last.how = "write" /\ ~last.ok
    /\ last.value = Thrown("Product not found")
    /\ wire.invoked = 1
    /\ StockKey \in DOMAIN entries

Unflagged == {result \in RawResults : ~result.rejected /\ ~result.isError}

\* C20: for a remote result that is not flagged, callTool returns: the parsed
\* value when the first text item has a text that parses, that text as it is
\* when it does not parse, and the content list when the first text item is
\* missing or empty.
C20_NormalizingNeverThrows ==
    [][ \A c \in Callers, link \in Links, result \in Unflagged :
            ( /\ last'.how = "callTool"
              /\ connecting(c, link).ok
              /\ callToolDirect(c, link, result) ) =>
                /\ last'.ok
                /\ last'.value =
                       IF FirstText(result.content) = "" THEN [content |-> result.content]
                       ELSE IF FirstText(result.content) \in DOMAIN JsonValues
                       THEN [parsed |-> JsonValues[FirstText(result.content)]]
                       ELSE [text |-> FirstText(result.content)] ]_vars

\* a text that is not JSON came back as it was
C20_Witness ==
    /\ last.how = "callTool" /\ last.ok
    /\ last.value = [text |-> "Product not found"]
    /\ wire.invoked = 1

----------------------------------------------------------------------------
\* The shape of the indexes and the paging of buildSerialIndex

\* the keys of `index` are non-empty, normalized, and the serial of their entry
WellKeyed(index) ==
    \A k \in DOMAIN index :
        /\ k # ""
        /\ k = normalize(k)
        /\ index[k].serial = k

\* C29: in every index returned by buildSerialIndex or
\* buildSerialIndexFromProducts each key is a non-empty string, equal to its own
\* trimmed and upper-cased form and to the serial field of its entry.
C29_KeysAreNonEmptyNormalized ==
    /\ indexPc = "done" => WellKeyed(serialIndex)
    /\ indexPc = "products_done" => WellKeyed(productIndex)

\* the page requests issued so far by the build in progress or ended
PagesRequested == skip \div pageSize + 1

\* ceil(limit / pageSize)
PagesFor(limit) == (limit + pageSize - 1) \div pageSize

\* C30: buildSerialIndex with a positive cap L issues at most ceil(L/100) page
\* requests; a page with fewer than 100 orders, a response that is no list
\* being a page of one, ends the loop, and no page is requested after it.
C30_PagingTerminates ==
    /\ []( (indexPc \in {"paging", "done", "failed"} /\ maxOrders > 0) =>
               PagesRequested <= PagesFor(maxOrders) )
    /\ [][ /\ \A form \in ResultForms :
                  ( /\ buildSerialIndex_page("ok", form)
                    /\ Len(orderListOf(ToolResult(form,
                           list_sales_orders(remoteOrders, pageSize, skip)))) < pageSize ) =>
                      (indexPc' = "done" /\ skip' = skip)
           /\ indexPc \in {"done", "failed"} => (indexPc' = indexPc /\ skip' = skip) ]_vars

\* a build capped at 150 orders ended after its second page, both pages full
C30_Witness ==
    /\ indexPc = "done"
    /\ maxOrders = 150
    /\ remoteOrders.count = 200
    /\ PagesRequested = 2
    /\ Len(allOrders) = 150

\* C24: the pages of buildSerialIndex are requested one after the other: a
\* request is made only when the one before it has returned, with exactly 100
\* orders, and the skip values requested are 0, 100, 200, ... without gaps or
\* repeats.
C24_PagingIsSequential ==
    /\ [](indexPc = "paging" => (skip % pageSize = 0 /\ Len(allOrders) = skip))
    /\ [][ /\ (indexPc = "idle" /\ indexPc' = "paging") => skip' = 0
           /\ (indexPc = "paging" /\ indexPc' = "paging") =>
                  /\ skip' = skip + pageSize
                  /\ Len(allOrders') = Len(allOrders) + pageSize
                  /\ \E form \in ResultForms :
                        Len(orderListOf(ToolResult(form,
                            list_sales_orders(remoteOrders, pageSize, skip)))) = pageSize
           /\ skip' # skip => (indexPc' = "paging" /\ skip' \in {0, skip + pageSize}) ]_vars

\* the third page is being requested, after two pages of 100 orders
C24_Witness ==
    /\ indexPc = "paging"
    /\ skip = 200
    /\ Len(allOrders) = 200

----------------------------------------------------------------------------
\* The line sources of one order

SourceNames == <<"pack", "pick", "order">>

\* the places <<source, line, serial>> of `order` where the serial is written
\* exactly as `serial`
RawPlaces(order, serial) ==
    {pl \in (1..3) \X (1..2) \X (1..3) :
        /\ pl[2] <= Len(Sources(order)[pl[1]])
        /\ Sources(order)[pl[1]][pl[2]].hasSerials
        /\ pl[3] <= Len(Sources(order)[pl[1]][pl[2]].serialNumbers)
        /\ serial # ""
        /\ Sources(order)[pl[1]][pl[2]].serialNumbers[pl[3]] = serial}

RawSerials == {"ab", "cd", " AB ", " ", "Cd", "aB"}

\* the sources of the places in `places` are the names in `sources`, in the
\* order packLines, pickLines, lines
InPriorityOrder(sources, places) ==
    /\ Len(sources) = Cardinality(places)
    /\ \A i \in 1..Len(sources) - 1 :
          \E m \in 1..3, n \in 1..3 :
              m <= n /\ sources[i] = SourceNames[m] /\ sources[i + 1] = SourceNames[n]
    /\ \A m \in 1..3 :
          Cardinality({i \in 1..Len(sources) : sources[i] = SourceNames[m]}) =
              Cardinality({pl \in places : pl[1] = m})

\* C22: within one order the sources are gone through as packLines, then
\* pickLines, then lines: buildSerialIndex records for a serial the productId
\* of the first of these sources that carries it, and getSalesOrderSerials
\* keeps one record per serial, with the productId of the first source that
\* carries it and the sources listed in that order.
C22_SourcesInPriorityOrder ==
    /\ [](indexPc = "done" =>
            \A n \in HotPositions \cap (1..Len(allOrders)) :
                LET order == allOrders[n]
                    index == indexOrder(order, <<>>)
                IN \A K \in DOMAIN index :
                      LET p == FirstPlace(order, K)
                      IN index[K].productId = Sources(order)[p[1]][p[2]].productId)
    /\ [][ \A shape \in OrderShapes :
              getOrderSerialsCmd("1", OrderOf(shape), "ok") =>
                  LET order == OrderOf(shape)
                      records == last'.value.serials
                  IN /\ last'.value.serialCount = Len(records)
                     /\ \A serial \in RawSerials :
                           Cardinality({i \in 1..Len(records) : records[i].serial = serial}) =
                               IF RawPlaces(order, serial) = {} THEN 0 ELSE 1
                     /\ \A i \in 1..Len(records) :
                           LET places == RawPlaces(order, records[i].serial)
                               p == CHOOSE p \in places : \A q \in places : Before(p, q)
                           IN /\ records[i].serial \in RawSerials
                              /\ records[i].productId = Sources(order)[p[1]][p[2]].productId
                              /\ InPriorityOrder(records[i].sources, places) ]_vars

\* the serial written in the pack lines and in the pick lines of the order is
\* one record, with the product of the pack line
C22_Witness ==
    /\ indexPc = "order_done"
    /\ \E i \in 1..Len(last.value.serials) :
          last.value.serials[i] =
              [serial |-> "ab", productId |-> "P1", sources |-> <<"pack", "pick">>]

\* C23: every serial is trimmed and upper-cased before it is a key or is
\* compared: the keys of both indexes are normalized serials, and
\* getSalesOrderSerials keeps two occurrences that differ only in case or
\* surrounding whitespace as one serial.
C23_SerialsNormalizedEverywhere ==
    /\ indexPc = "done" => \A k \in DOMAIN serialIndex : k = normalize(k)
    /\ indexPc = "products_done" => \A k \in DOMAIN productIndex : k = normalize(k)
    /\ indexPc = "order_done" =>
           \A i, j \in 1..Len(last.value.serials) :
               normalize(last.value.serials[i].serial) =
                   normalize(last.value.serials[j].serial) => i = j

----------------------------------------------------------------------------
\* unreceivePurchaseOrder

\* C25: unreceivePurchaseOrder with dryRun makes its remote call and purges
\* nothing, also when the call succeeds; without dryRun a successful call
\* purges the keys beginning with purchase_orders, purchase_order: and stock,
\* and only those.
C25_DryRunPurgesNothing ==
    [][ /\ ( /\ last'.how = "write"
             /\ \E c \in Callers, o \in ToolOutcomes : unreceivePurchaseOrder(c, TRUE, o) ) =>
               /\ last'.remoteCalls = 1
               /\ last'.patterns = <<>>
               /\ entries' = entries
        /\ ( /\ last'.how = "write"
             /\ \E c \in Callers : unreceivePurchaseOrder(c, FALSE, "ok") ) =>
               /\ last'.remoteCalls = 1
               /\ last'.patterns = <<"purchase_orders", "purchase_order:", "stock">>
               /\ entries' = Without(entries, {"purchase_orders", "purchase_order:", "stock"}) ]_vars

\* a write succeeded without an invalidatePattern call, and an entry of the
\* families it would have purged is still cached
C25_Witness ==
    /\ last.how = "write" /\ last.ok
    /\ last.remoteCalls = 1
    /\ last.patterns = <<>>
    /\ \E k \in DOMAIN entries :
          \E p \in {"purchase_orders", "purchase_order:", "stock"} : StartsWith(k, p)

----------------------------------------------------------------------------
\* The cacheDisabled flag of a client and the switch of the shared store

\* C28: from its disableCache until its own enableCache, every cached accessor
\* call of a client goes to the remote service and neither reads nor stores an
\* entry, nor counts a hit or a miss, also after another client sharing the
\* store has called enableCache: no step that answers from the store, stores,
\* counts or skips the remote call is a cached accessor call of such a client.
C28_DisabledClientBypassesStore ==
    [][ \A c \in Callers :
            ( /\ cacheDisabled[c]
              /\ last'.how \in {"hit", "miss", "bypass"}
              /\ \/ last'.how # "bypass"
                 \/ last'.remoteCalls # 1
                 \/ entries' # entries \/ hits' # hits \/ misses' # misses ) =>
                ~ \E o \in ToolOutcomes : AnyRead(c, o) ]_vars

\* the store was switched on again by another client, it holds an entry, and
\* the call of the client that disabled its cache went to the remote service
C28_Witness ==
    /\ cacheDisabled[CliClient]
    /\ enabled /\ ~switchedOff
    /\ last.how = "bypass" /\ last.ok
    /\ entries # <<>>

----------------------------------------------------------------------------
\* Calls that overlap at their awaits

\* the calls that have missed on `key` and have not yet stored their result
Fetching(key) ==
    {u \in Tasks : /\ tasks[u].pc \in {"connecting", "awaiting", "served"}
                   /\ tasks[u].stores /\ tasks[u].key = key}

\* C21: a cached accessor call that misses on a key another call is still
\* fetching counts a miss and runs its own producer (it is not made to wait for
\* the call under way); and when a call stores its result under a key that
\* already holds an entry, it replaces that entry: the store has one entry for
\* the key, with the value of the call that finished last.
C21_NoSingleFlightOneEntry ==
    [][ \A t \in Tasks :
          /\ ( /\ tasks[t].pc = "idle" /\ tasks'[t].pc # "idle"
               /\ tasks'[t].op = "getProduct"
               /\ enabled /\ ~cacheDisabled[tasks'[t].client]
               /\ ~Fresh(entries, tasks'[t].key, now)
               /\ Fetching(tasks'[t].key) # {} ) =>
                 /\ misses' = misses + 1
                 /\ tasks'[t].stores
                 /\ tasks'[t].pc \in {"connecting", "awaiting"}
          /\ ( /\ tasks[t].pc = "served" /\ tasks'[t].pc = "done"
               /\ tasks[t].stores /\ tasks[t].result.ok ) =>
                 /\ DOMAIN entries' = DOMAIN entries \cup {tasks[t].key}
                 /\ entries'[tasks[t].key].value = tasks[t].result.value
                 /\ \A k \in DOMAIN entries \ {tasks[t].key} : entries'[k] = entries[k] ]_vars

\* two calls on one key have both missed (nothing was purged meanwhile: no
\* write has completed), both have run their producer, with different answers,
\* and both have stored: the key holds the later answer
C21_Witness ==
    \E t, u \in Tasks :
        /\ t # u
        /\ tasks[t].pc = "done" /\ tasks[u].pc = "done"
        /\ tasks[t].stores /\ tasks[u].stores
        /\ tasks[t].key = tasks[u].key
        /\ tasks[t].result.ok /\ tasks[u].result.ok
        /\ tasks[t].result.value # tasks[u].result.value
        /\ \A v \in Tasks \ {t, u} : tasks[v].pc # "done"
        /\ misses = 2
        /\ tasks[t].key \in DOMAIN entries
        /\ entries[tasks[t].key].value = last.value

\* the entries that upsertProduct purges
ProductFamily(store) ==
    {k \in DOMAIN store :
        \E p \in {"products", "product:", "products_search", "product_bom", "bom"} :
            StartsWith(k, p)}

\* C26: once upsertProduct has completed successfully, the cache holds no entry
\* of the product family with data older than that write, also when a read
\* missed before the write and was still waiting for its producer while the
\* write and its purge ran.
C26_NoStaleEntryAfterWrite ==
    \A w \in Tasks :
        ( /\ tasks[w].op = "upsertProduct"
          /\ tasks[w].pc = "done"
          /\ tasks[w].result.ok ) =>
            \A k \in ProductFamily(entries) :
                entries[k].value.data >= tasks[w].result.value.data

\* C27: a client establishes at most one transport connection between two
\* disconnects, also when several of its calls start before its first connect
\* has completed.
C27_OneConnectionPerClient ==
    \A c \in Clients : established[c] <= 1

====
